---- MODULE Spec2Model ----
(***************************************************************************)
(* Verification model of the RGB -> spectrum table subsystem of            *)
(* atodium_optics (shaders/spectrum_table and shaders/src/spectrum).       *)
(*                                                                         *)
(* Part I   the threaded table generator generate_spectrum_tables          *)
(*          (specifications Spec, FairSpec) and one worker closure in      *)
(*          isolation (specification SpecRow).                             *)
(* Part II  the Gauss-Newton fitter with its LUP solver in rounded         *)
(*          binary floating point (specification SpecGN).                  *)
(* Part III the consumers of the table: the runtime lookup (SpecLookup),   *)
(*          the scale axis (SpecScale), the stored polynomial and get_value*)
(*          (SpecStore, SpecValue), max_value (SpecMaxValue), the CIE      *)
(*          integration weights and cie_interp (SpecTables, SpecCie).      *)
(* Part IV  gauss_newton as a function of its arguments (SpecPure), the    *)
(*          LUP solver in exact arithmetic (SpecLup), RgbColor (SpecRgb).  *)
(***************************************************************************)
EXTENDS Integers, Sequences, FiniteSets, TLC

(***************************************************************************)
(* Bounds of the model.                                                    *)
(***************************************************************************)
\* largest table resolution explored with all worker threads interleaved
MaxRes == 2
\* largest RBG_TO_SPECTRUM_TABLE_RES explored for the runtime lookup
MaxLookupRes == 6
\* largest `res` explored for the scale axis
MaxScaleRes == 13
\* largest table resolution explored for a single worker closure
MaxRowRes == 10

(***************************************************************************)
(* Program constants.                                                      *)
(***************************************************************************)
\* `let start = res / 5;`
SweepSplit == 5
\* the three "max channel" tables, `for l in 0..3`
Channels == 3

VARIABLES
    res,        \* the `res` argument of generate_spectrum_tables
    singular,   \* the target rgb on which gauss_newton reports a singular Jacobian
    mainPc,     \* position of the thread that called generate_spectrum_tables
    mainL,      \* its loop variable l
    mainJ,      \* its loop variable j (spawn loop) / index of the next handle (join loop)
    workers,    \* one record per spawned closure, keyed by <<l, j>>
    out,        \* the Vec<f32> behind Arc<Mutex<..>>
    holder,     \* the worker holding the MutexGuard, or NoWorker
    poisoned,   \* the mutex's poison flag
    writers,    \* history: for each element of out, the workers that stored to it
    fitlog,     \* history: for each worker, its gauss_newton calls <<k, i, initial coes>>
    gnPc,       \* gauss_newton: "off", "loop" (at the head of the for loop) or "returned"
    gnMaxIter,  \* its max_iter argument
    gnIter,     \* number of loop iterations entered so far
    gnCoes,     \* the caller's coefficients array
    gnRet,      \* the returned Option: "Some", "None", or "-" before the return
    gnCoes0,    \* history: the coefficients at entry
    gnLast,     \* history: the last iteration entered
    gnSingular, \* history: some lup_decompose returned None
    gnBelow     \* history: some iteration computed r < 1e-6

genVars == <<res, singular, mainPc, mainL, mainJ, workers, out, holder, poisoned,
             writers, fitlog>>
gnVars == <<gnPc, gnMaxIter, gnIter, gnCoes, gnRet, gnCoes0, gnLast, gnSingular, gnBelow>>

VARIABLES
    scPc,       \* scale loop of generate_spectrum_tables: "off", "push" or "done"
    scRes,      \* its `res`
    scaleOut,   \* the Vec<f32> `scale` being filled
    lkPc,       \* color_to_polynomial: "off", "entry", "search", "interp", "returned", "panicked"
    lkRes,      \* RBG_TO_SPECTRUM_TABLE_RES
    lkRgb,      \* the argument rgb
    lkVertex,   \* history: the grid vertex <<l, k, j, i>> rgb was rebuilt from, if any
    lkIdx,      \* max_idx, z, x, y, xi, yi once computed
    lkFirst,    \* find_interval: `first`
    lkSize,     \* find_interval: `size`
    lkZi,       \* the value find_interval returned
    lkReads,    \* history: the z_node and coefficients indices read so far
    lkRet,      \* the returned polynomial: closed form or the interpolation weights
    stPc,       \* a cell's stores followed by get_value: "off", "store", "eval" or "done"
    stCoes,     \* the fitter's coefficients [a, b, c] (f64)
    stLambda,   \* the wavelength handed to get_value (f32)
    stOut,      \* the three f32 values stored for the cell
    stPoly,     \* get_value: the value of calc_polynomial!
    stValue,    \* get_value: the value returned
    itPc,       \* init_tables: "off", "loop" or "done"
    itI,        \* its loop variable i
    itWeights,  \* history: the weight of every sample so far, in eighths of h
    mvPc,       \* max_value: "off", "call" or "returned"
    mvPoly,     \* the polynomial [c2, c1, c0] it is called on
    mvRet       \* the value it returned

VARIABLES
    puTables,   \* the RgbToSpecTables value shared by two gauss_newton calls
    puCalls,    \* the two calls: arguments, position, coefficients array, return value
    ciPc,       \* cie_interp: "off", "entry", "index" or "returned"
    ciData,     \* its argument data
    ciX,        \* its argument x, rescaled in place
    ciLambda,   \* history: the wavelength passed in
    ciOffset,   \* `offset`
    ciWeight,   \* `weight`
    ciReads,    \* history: the indices of data read
    ciRet,      \* the value returned
    luPc,       \* lup_decompose / lup_solve: "off", "column", "failed", "solve" or "solved"
    luTol,      \* the argument tol
    luA0,       \* history: the matrix at entry
    luB,        \* the right-hand side handed to lup_solve
    luI,        \* the elimination column i
    luA,        \* the matrix, overwritten in place
    luP,        \* the permutation array p[0..N]
    luMax,      \* history: max_a of every column examined
    luX,        \* the vector lup_solve returned
    rcPc,       \* RgbColor: "off", "live" or "panicked"
    rcColor     \* the RgbColor value <<r, g, b>>

scVars == <<scPc, scRes, scaleOut>>
lkVars == <<lkPc, lkRes, lkRgb, lkVertex, lkIdx, lkFirst, lkSize, lkZi, lkReads, lkRet>>
stVars == <<stPc, stCoes, stLambda, stOut, stPoly, stValue>>
itVars == <<itPc, itI, itWeights>>
mvVars == <<mvPc, mvPoly, mvRet>>
puVars == <<puTables, puCalls>>
ciVars == <<ciPc, ciData, ciX, ciLambda, ciOffset, ciWeight, ciReads, ciRet>>
luVars == <<luPc, luTol, luA0, luB, luI, luA, luP, luMax, luX>>
rcVars == <<rcPc, rcColor>>
extVars == <<puVars, ciVars, luVars, rcVars>>
\* the machines other than the generator and the fitter
auxVars == <<scVars, lkVars, stVars, itVars, mvVars, extVars>>
\* everything but one of them
notSc == <<genVars, gnVars, lkVars, stVars, itVars, mvVars, extVars>>
notLk == <<genVars, gnVars, scVars, stVars, itVars, mvVars, extVars>>
notSt == <<genVars, gnVars, scVars, lkVars, itVars, mvVars, extVars>>
notIt == <<genVars, gnVars, scVars, lkVars, stVars, mvVars, extVars>>
notMv == <<genVars, gnVars, scVars, lkVars, stVars, itVars, extVars>>
notPu == <<genVars, gnVars, scVars, lkVars, stVars, itVars, mvVars, ciVars, luVars, rcVars>>
notCi == <<genVars, gnVars, scVars, lkVars, stVars, itVars, mvVars, puVars, luVars, rcVars>>
notLu == <<genVars, gnVars, scVars, lkVars, stVars, itVars, mvVars, puVars, ciVars, rcVars>>
notRc == <<genVars, gnVars, scVars, lkVars, stVars, itVars, mvVars, puVars, ciVars, luVars>>
vars == <<genVars, gnVars, auxVars>>

\* the values of a machine that is not running
ScOff == scPc = "off" /\ scRes = 0 /\ scaleOut = << >>
LkOff ==
    /\ lkPc = "off" /\ lkRes = 0 /\ lkRgb = << >> /\ lkVertex = << >> /\ lkIdx = << >>
    /\ lkFirst = 0 /\ lkSize = 0 /\ lkZi = 0 /\ lkReads = {} /\ lkRet = << >>
StOff ==
    /\ stPc = "off" /\ stCoes = << >> /\ stLambda = << >> /\ stOut = << >>
    /\ stPoly = << >> /\ stValue = << >>
ItOff == itPc = "off" /\ itI = 0 /\ itWeights = << >>
MvOff == mvPc = "off" /\ mvPoly = << >> /\ mvRet = << >>
PuOff == puTables = << >> /\ puCalls = << >>
CiOff ==
    /\ ciPc = "off" /\ ciData = << >> /\ ciX = << >> /\ ciLambda = << >> /\ ciOffset = 0
    /\ ciWeight = << >> /\ ciReads = {} /\ ciRet = << >>
LuOff ==
    /\ luPc = "off" /\ luTol = << >> /\ luA0 = << >> /\ luB = << >> /\ luI = 0
    /\ luA = << >> /\ luP = << >> /\ luMax = << >> /\ luX = << >>
RcOff == rcPc = "off" /\ rcColor = << >>
ExtOff == PuOff /\ CiOff /\ LuOff /\ RcOff
\* the five machines of Part III
BaseOff == ScOff /\ LkOff /\ StOff /\ ItOff /\ MvOff
AuxOff == ScOff /\ LkOff /\ StOff /\ ItOff /\ MvOff /\ ExtOff
GenOff ==
    /\ res = 0 /\ singular = << >> /\ mainPc = "off" /\ mainL = 0 /\ mainJ = 0
    /\ workers = << >> /\ out = << >> /\ holder = << >> /\ poisoned = FALSE
    /\ writers = << >> /\ fitlog = << >>
GnOff ==
    /\ gnPc = "off" /\ gnMaxIter = 0 /\ gnIter = 0 /\ gnCoes = << >> /\ gnRet = "-"
    /\ gnCoes0 = << >> /\ gnLast = << >> /\ gnSingular = FALSE /\ gnBelow = FALSE

(***************************************************************************)
(* Exact rational helpers for the sample grid.                             *)
(***************************************************************************)
\* smooth_step(x) = x*x*(3 - 2x) on the fraction p/q, as <<numerator, denominator>>
smooth_step(x) == <<x[1] * x[1] * (3 * x[2] - 2 * x[1]), x[2] * x[2] * x[2]>>

\* scale[k] = smooth_step(smooth_step(k / (res - 1))), a fraction over (res-1)^9
ScaleAt(k, r) == smooth_step(smooth_step(<<k, r - 1>>))

\* exact product b * m of a scale numerator and a grid factor, kept as two
\* limbs <<high, low>> in base LimbBase so that it never leaves 32 bits
LimbBase == 100 * 100
Mul2(b, m) ==
    LET lo == (b % LimbBase) * m
    IN  <<(b \div LimbBase) * m + (lo \div LimbBase), lo % LimbBase>>

\* the integer a limb pair stands for (small resolutions only)
LimbInt(v) == v[1] * LimbBase + v[2]

\* the target rgb of cell (l, k, j, i): numerators over the common
\* denominator (res-1)^10;  b = scale[k], x = i/(res-1), y = j/(res-1):
\* rgb[l] = b; rgb[(l + 1) % 3] = x * b; rgb[(l + 2) % 3] = y * b;
CellRgb(l, k, j, i, r) ==
    LET b == ScaleAt(k, r)[1]
        zero == [c \in 0..2 |-> <<0, 0>>]
        r1 == [zero EXCEPT ![l] = Mul2(b, r - 1)]
        r2 == [r1 EXCEPT ![(l + 1) % 3] = Mul2(b, i)]
    IN  [r2 EXCEPT ![(l + 2) % 3] = Mul2(b, j)]

(***************************************************************************)
(* The sweep of one (l, j, i) column.                                      *)
(***************************************************************************)
start(r) == r \div SweepSplit

\* faulty variant: the forward loop starts one k too late
ForwardKsSkipFirst(r) == [n \in 1..(r - start(r) - 1) |-> start(r) + n]
\* `for k in start..res`
ForwardKs(r) == [n \in 1..(r - start(r)) |-> start(r) + n - 1]

\* `for k in (0..start).rev()`
ReverseKs(r) == [n \in 1..start(r) |-> start(r) - n]

\* faulty variants of idx: i used for j; k and j exchanged; j and i exchanged
IdxSharedRow(l, k, j, i, r) == ((l * r + k) * r + i) * r + i
IdxSwapKJ(l, k, j, i, r) == ((l * r + j) * r + k) * r + i
IdxSwapJI(l, k, j, i, r) == ((l * r + k) * r + i) * r + j
\* `let idx = ((l * res + k) * res + j) * res + i;`
Idx(l, k, j, i, r) == ((l * r + k) * r + j) * r + i

\* `vec![0.0f32; 9 * res * res * res]`
OutLen(r) == 9 * r * r * r

(***************************************************************************)
(* gauss_newton as seen by the generator.  The fit is a deterministic      *)
(* function of (tables, rgb, coes, 15); tables is fixed per run.  Its      *)
(* numeric result is kept symbolic: a coefficient triple is the list of    *)
(* target colours fitted since the triple was last zeroed, so two triples  *)
(* are equal in the model only if they were produced by the same chain of  *)
(* calls.  [0.0; 3] is the empty chain.                                    *)
(***************************************************************************)
NoRgb == [c \in 0..2 |-> <<0 - 1, 0 - 1>>]
ZeroCoes == << >>

\* Some(()) / None
gauss_newton_ok(rgb, coes) == rgb # singular

\* the coefficients left in `coes` by a successful call
gauss_newton_coes(rgb, coes) == Append(coes, rgb)

\* element c of the reparametrised triple stored for fitted coefficients coes
StoredValue(c, coes) == <<c, coes>>

\* 0.0f32 placeholder
Placeholder == <<0 - 1, ZeroCoes>>

(***************************************************************************)
(* Worker closures.                                                        *)
(***************************************************************************)
NoWorker == <<0 - 1, 0 - 1>>
WorkerIds(r) == (0..(Channels - 1)) \X (0..(r - 1))

Unspawned == [st |-> "unspawned", i |-> 0, rev |-> FALSE, n |-> 1, coes |-> ZeroCoes]

\* state of a closure at its first statement: i = 0, coes = [0.0; 3], k = start
Started == [st |-> "fit", i |-> 0, rev |-> FALSE, n |-> 1, coes |-> ZeroCoes]

\* the k of the loop iteration the worker is in
CurK(w, r) == IF w.rev THEN ReverseKs(r)[w.n] ELSE ForwardKs(r)[w.n]

\* faulty variant: a finished closure keeps its clones of the Arcs
RunningKeepsClones(w) == w.st \in {"fit", "lock", "store", "finished"}
Running(w) == w.st \in {"fit", "lock", "store"}

\* faulty variant: the reverse loop is entered without `coes = [0.0; 3]`
AdvanceKeepCoes(w, r) ==
    IF ~w.rev /\ w.n < Len(ForwardKs(r))
        THEN [w EXCEPT !.st = "fit", !.n = w.n + 1]
    ELSE IF ~w.rev /\ Len(ReverseKs(r)) > 0
        THEN [w EXCEPT !.st = "fit", !.rev = TRUE, !.n = 1]
    ELSE IF w.rev /\ w.n < Len(ReverseKs(r))
        THEN [w EXCEPT !.st = "fit", !.n = w.n + 1]
    ELSE IF w.i + 1 < r
        THEN [w EXCEPT !.st = "fit", !.i = w.i + 1, !.rev = FALSE, !.n = 1,
                       !.coes = ZeroCoes]
    ELSE [w EXCEPT !.st = "finished"]

\* control after the body of a k iteration: next k, then the reverse loop
\* (with `coes = [0.0; 3]`), then the next i (with `let mut coes = [0.0; 3]`),
\* then the end of the closure
Advance(w, r) ==
    IF ~w.rev /\ w.n < Len(ForwardKs(r))
        THEN [w EXCEPT !.st = "fit", !.n = w.n + 1]
    ELSE IF ~w.rev /\ Len(ReverseKs(r)) > 0
        THEN [w EXCEPT !.st = "fit", !.rev = TRUE, !.n = 1, !.coes = ZeroCoes]
    ELSE IF w.rev /\ w.n < Len(ReverseKs(r))
        THEN [w EXCEPT !.st = "fit", !.n = w.n + 1]
    ELSE IF w.i + 1 < r
        THEN [w EXCEPT !.st = "fit", !.i = w.i + 1, !.rev = FALSE, !.n = 1,
                       !.coes = ZeroCoes]
    ELSE [w EXCEPT !.st = "finished"]

\* gauss_newton(&tables_clone, rgb, &mut coes, 15).expect(..)
WorkerFit(id) ==
    /\ workers[id].st = "fit"
    /\ LET w == workers[id]
           k == CurK(w, res)
           rgb == CellRgb(id[1], k, id[2], w.i, res)
       IN  /\ fitlog' = [fitlog EXCEPT ![id] = Append(@, <<k, w.i, w.coes>>)]
           /\ IF gauss_newton_ok(rgb, w.coes)
                THEN workers' = [workers EXCEPT ![id] =
                        [w EXCEPT !.st = "lock", !.coes = gauss_newton_coes(rgb, w.coes)]]
                ELSE workers' = [workers EXCEPT ![id] = [w EXCEPT !.st = "panicked"]]
    /\ UNCHANGED <<res, singular, mainPc, mainL, mainJ, out, holder, poisoned, writers>>
    /\ UNCHANGED <<gnVars, auxVars>>

\* let mut out_guard = out_clone.lock().unwrap();
WorkerLock(id) ==
    /\ workers[id].st = "lock"
    /\ holder = NoWorker
    /\ IF poisoned
         THEN /\ workers' = [workers EXCEPT ![id].st = "panicked"]
              /\ UNCHANGED holder
         ELSE /\ workers' = [workers EXCEPT ![id].st = "store"]
              /\ holder' = id
    /\ UNCHANGED <<res, singular, mainPc, mainL, mainJ, out, poisoned, writers, fitlog>>
    /\ UNCHANGED <<gnVars, auxVars>>

\* faulty variant: the guard is not dropped after the stores
WorkerStoreKeepGuard(id) ==
    /\ workers[id].st = "store"
    /\ holder = id
    /\ LET w == workers[id]
           idx == Idx(id[1], CurK(w, res), id[2], w.i, res)
       IN  IF 3 * idx + 2 < OutLen(res)
             THEN /\ out' = [out EXCEPT ![3 * idx] = StoredValue(0, w.coes),
                                        ![3 * idx + 1] = StoredValue(1, w.coes),
                                        ![3 * idx + 2] = StoredValue(2, w.coes)]
                  /\ writers' = [writers EXCEPT ![3 * idx] = Append(@, id),
                                                ![3 * idx + 1] = Append(@, id),
                                                ![3 * idx + 2] = Append(@, id)]
                  /\ workers' = [workers EXCEPT ![id] = Advance(w, res)]
                  /\ UNCHANGED poisoned
             ELSE \* index out of bounds: panic while the guard is held
                  /\ workers' = [workers EXCEPT ![id].st = "panicked"]
                  /\ poisoned' = TRUE
                  /\ UNCHANGED <<out, writers>>
    /\ holder' = id
    /\ UNCHANGED <<res, singular, mainPc, mainL, mainJ, fitlog>>
    /\ UNCHANGED <<gnVars, auxVars>>

\* out_guard[3 * idx] = ..; out_guard[3 * idx + 1] = ..; out_guard[3 * idx + 2] = ..;
\* the guard is dropped at the end of the loop body
WorkerStore(id) ==
    /\ workers[id].st = "store"
    /\ holder = id
    /\ LET w == workers[id]
           idx == Idx(id[1], CurK(w, res), id[2], w.i, res)
       IN  IF 3 * idx + 2 < OutLen(res)
             THEN /\ out' = [out EXCEPT ![3 * idx] = StoredValue(0, w.coes),
                                        ![3 * idx + 1] = StoredValue(1, w.coes),
                                        ![3 * idx + 2] = StoredValue(2, w.coes)]
                  /\ writers' = [writers EXCEPT ![3 * idx] = Append(@, id),
                                                ![3 * idx + 1] = Append(@, id),
                                                ![3 * idx + 2] = Append(@, id)]
                  /\ workers' = [workers EXCEPT ![id] = Advance(w, res)]
                  /\ UNCHANGED poisoned
             ELSE \* index out of bounds: panic while the guard is held
                  /\ workers' = [workers EXCEPT ![id].st = "panicked"]
                  /\ poisoned' = TRUE
                  /\ UNCHANGED <<out, writers>>
    /\ holder' = NoWorker
    /\ UNCHANGED <<res, singular, mainPc, mainL, mainJ, fitlog>>
    /\ UNCHANGED <<gnVars, auxVars>>

(***************************************************************************)
(* The calling thread.                                                     *)
(***************************************************************************)
\* thread::spawn(move || ..); handles.push(handle);
Spawn ==
    /\ mainPc = "spawn"
    /\ workers' = [workers EXCEPT ![<<mainL, mainJ>>] = Started]
    /\ IF mainJ + 1 < res
         THEN /\ mainJ' = mainJ + 1
              /\ UNCHANGED mainPc
         ELSE /\ mainJ' = 0
              /\ mainPc' = "join"
    /\ UNCHANGED <<res, singular, mainL, out, holder, poisoned, writers, fitlog>>
    /\ UNCHANGED <<gnVars, auxVars>>

\* faulty variant: `let _ = handle.join();`
JoinIgnoreResult ==
    /\ mainPc = "join"
    /\ workers[<<mainL, mainJ>>].st \in {"finished", "panicked"}
    /\ IF mainJ + 1 < res
         THEN /\ mainJ' = mainJ + 1
              /\ UNCHANGED <<mainPc, mainL>>
         ELSE IF mainL + 1 < Channels
         THEN /\ mainL' = mainL + 1
              /\ mainJ' = 0
              /\ mainPc' = "spawn"
         ELSE /\ mainPc' = "unwrap"
              /\ UNCHANGED <<mainL, mainJ>>
    /\ UNCHANGED <<res, singular, workers, out, holder, poisoned, writers, fitlog>>
    /\ UNCHANGED <<gnVars, auxVars>>

\* for handle in handles { handle.join().unwrap(); }
\* faulty variant: only the first handle of a channel is joined
JoinFirstHandle ==
    /\ mainPc = "join"
    /\ workers[<<mainL, mainJ>>].st \in {"finished", "panicked"}
    /\ IF workers[<<mainL, mainJ>>].st = "panicked"
         THEN /\ mainPc' = "panicked"
              /\ UNCHANGED <<mainL, mainJ>>
         ELSE IF mainL + 1 < Channels
         THEN /\ mainL' = mainL + 1
              /\ mainJ' = 0
              /\ mainPc' = "spawn"
         ELSE /\ mainPc' = "unwrap"
              /\ UNCHANGED <<mainL, mainJ>>
    /\ UNCHANGED <<res, singular, workers, out, holder, poisoned, writers, fitlog>>
    /\ UNCHANGED <<gnVars, auxVars>>
Join ==
    /\ mainPc = "join"
    /\ workers[<<mainL, mainJ>>].st \in {"finished", "panicked"}
    /\ IF workers[<<mainL, mainJ>>].st = "panicked"
         THEN /\ mainPc' = "panicked"
              /\ UNCHANGED <<mainL, mainJ>>
         ELSE IF mainJ + 1 < res
         THEN /\ mainJ' = mainJ + 1
              /\ UNCHANGED <<mainPc, mainL>>
         ELSE IF mainL + 1 < Channels
         THEN /\ mainL' = mainL + 1
              /\ mainJ' = 0
              /\ mainPc' = "spawn"
         ELSE /\ mainPc' = "unwrap"
              /\ UNCHANGED <<mainL, mainJ>>
    /\ UNCHANGED <<res, singular, workers, out, holder, poisoned, writers, fitlog>>
    /\ UNCHANGED <<gnVars, auxVars>>

\* strong count of the Arcs: the caller's plus one per closure still alive
StrongCount == 1 + Cardinality({id \in DOMAIN workers : Running(workers[id])})

\* Arc::try_unwrap(scale_ref).unwrap(); Arc::try_unwrap(out).unwrap().into_inner().unwrap()
Unwrap ==
    /\ mainPc = "unwrap"
    /\ mainPc' = IF StrongCount = 1 /\ ~poisoned THEN "returned" ELSE "panicked"
    /\ UNCHANGED <<res, singular, mainL, mainJ, workers, out, holder, poisoned,
                   writers, fitlog>>
    /\ UNCHANGED <<gnVars, auxVars>>

(***************************************************************************)
(* Specifications of the generator.                                        *)
(***************************************************************************)
\* inputs on which the fit may be singular: none, or the colour of one of a
\* few cells (the all-zero colour of k = 0, a pure primary, a colour shared
\* by two tables, white)
SingularCandidates(r) ==
    {NoRgb, CellRgb(0, 0, 0, 0, r), CellRgb(0, r - 1, 0, 0, r),
     CellRgb(1, r - 1, r - 1, 0, r), CellRgb(2, r - 1, r - 1, r - 1, r)}

GenInit(r, cands) ==
    /\ res = r
    /\ singular \in cands
    /\ out = [p \in 0..(OutLen(r) - 1) |-> Placeholder]
    /\ holder = NoWorker
    /\ poisoned = FALSE
    /\ writers = [p \in 0..(OutLen(r) - 1) |-> << >>]
    /\ fitlog = [id \in WorkerIds(r) |-> << >>]
    /\ gnPc = "off"
    /\ gnMaxIter = 0
    /\ gnIter = 0
    /\ gnCoes = << >>
    /\ gnRet = "-"
    /\ gnCoes0 = << >>
    /\ gnLast = << >>
    /\ gnSingular = FALSE
    /\ gnBelow = FALSE
    /\ AuxOff

\* the state on entry to `for l in 0..3`
Init ==
    \E r \in 2..MaxRes :
        /\ GenInit(r, SingularCandidates(r))
        /\ mainPc = "spawn"
        /\ mainL = 0
        /\ mainJ = 0
        /\ workers = [id \in WorkerIds(r) |-> Unspawned]

Worker == \E id \in DOMAIN workers : WorkerFit(id) \/ WorkerLock(id) \/ WorkerStore(id)

Next == Spawn \/ Join \/ Unwrap \/ Worker

Spec == Init /\ [][Next]_vars

\* one closure (l, j) run on its own, from its first statement
InitRow ==
    \E r \in 2..MaxRowRes : \E me \in (0..(Channels - 1)) \X {0, r - 1} :
        /\ GenInit(r, {NoRgb, CellRgb(0, r - 1, 0, 0, r)})
        /\ mainPc = "join"
        /\ mainL = me[1]
        /\ mainJ = me[2]
        /\ workers = [id \in WorkerIds(r) |-> IF id = me THEN Started ELSE Unspawned]

SpecRow == InitRow /\ [][Worker]_vars

\* the scheduler never stops while some thread can take a step; as every
\* thread has a bounded amount of work nothing stronger is needed
Fairness == WF_vars(Next)

\* the entry states in which no cell's fit fails
InitFair == Init /\ singular = NoRgb

\* the runs in which no fit fails
FairSpec == InitFair /\ [][Next]_vars /\ Fairness

(***************************************************************************)
(* The generator's loops run by one thread: each closure (l, j) executed   *)
(* to completion, in spawn order.  This is the reference the threaded      *)
(* generator is compared with.                                             *)
(***************************************************************************)
\* one k loop of the closure: fit, then the three stores
\* s = [ok, out, coes]; ok turns FALSE when the expect panics
RECURSIVE RowSweep(_, _, _, _, _, _, _)
RowSweep(s, ks, n, l, j, i, r) ==
    IF n > Len(ks) \/ ~s.ok THEN s
    ELSE LET k == ks[n]
             rgb == CellRgb(l, k, j, i, r)
             idx == Idx(l, k, j, i, r)
             c == gauss_newton_coes(rgb, s.coes)
         IN  IF ~gauss_newton_ok(rgb, s.coes) THEN [s EXCEPT !.ok = FALSE]
             ELSE RowSweep([ok |-> TRUE,
                            out |-> [s.out EXCEPT ![3 * idx] = StoredValue(0, c),
                                                  ![3 * idx + 1] = StoredValue(1, c),
                                                  ![3 * idx + 2] = StoredValue(2, c)],
                            coes |-> c],
                           ks, n + 1, l, j, i, r)

\* the body of `for i in 0..res`: `let mut coes = [0.0; 3]`, the forward
\* loop, `coes = [0.0; 3]`, the reverse loop
RowColumn(s, l, j, i, r) ==
    LET fwd == RowSweep([s EXCEPT !.coes = ZeroCoes], ForwardKs(r), 1, l, j, i, r)
    IN  RowSweep([fwd EXCEPT !.coes = ZeroCoes], ReverseKs(r), 1, l, j, i, r)

\* columns c, c+1, .. of all closures in the order l, j, i
RECURSIVE RowLoops(_, _, _)
RowLoops(s, c, r) ==
    IF c >= Channels * r * r THEN s
    ELSE RowLoops(RowColumn(s, c \div (r * r), (c \div r) % r, c % r, r), c + 1, r)

RowRun(r) ==
    RowLoops([ok |-> TRUE, out |-> [p \in 0..(OutLen(r) - 1) |-> Placeholder],
              coes |-> ZeroCoes], 0, r)

(***************************************************************************)
(* The sequential generator of the macro crate: the same l, j, i, k loops  *)
(* run by one thread on a plain Vec.                                       *)
(***************************************************************************)
\* `let idx = ((l * res + k) * res + j) * res + i;` of the macro crate
MacroIdx(l, k, j, i, r) == ((l * r + k) * r + j) * r + i

\* one k loop: `for k in ks { gauss_newton(..).expect(..); out[3 * idx ..] = .. }`
\* s = [ok, out, coes]; ok turns FALSE when the expect panics
RECURSIVE MacroSweep(_, _, _, _, _, _, _)
MacroSweep(s, ks, n, l, j, i, r) ==
    IF n > Len(ks) \/ ~s.ok THEN s
    ELSE LET k == ks[n]
             rgb == CellRgb(l, k, j, i, r)
             idx == MacroIdx(l, k, j, i, r)
             c == gauss_newton_coes(rgb, s.coes)
         IN  IF ~gauss_newton_ok(rgb, s.coes) THEN [s EXCEPT !.ok = FALSE]
             ELSE MacroSweep([ok |-> TRUE,
                            out |-> [s.out EXCEPT ![3 * idx] = StoredValue(0, c),
                                                  ![3 * idx + 1] = StoredValue(1, c),
                                                  ![3 * idx + 2] = StoredValue(2, c)],
                            coes |-> c],
                           ks, n + 1, l, j, i, r)

\* the body of `for i in 0..res`: forward loop from zero coefficients, then the
\* reverse loop (the macro crate keeps the forward loop's coefficients here)
MacroColumn(s, l, j, i, r) ==
    LET fwd == MacroSweep([s EXCEPT !.coes = ZeroCoes], ForwardKs(r), 1, l, j, i, r)
    IN  MacroSweep(fwd, ReverseKs(r), 1, l, j, i, r)

\* `for l in 0..3 { for j in 0..res { for i in 0..res {..} } }`, cell count c
RECURSIVE MacroLoops(_, _, _)
MacroLoops(s, c, r) ==
    IF c >= Channels * r * r THEN s
    ELSE MacroLoops(MacroColumn(s, c \div (r * r), (c \div r) % r, c % r, r), c + 1, r)

MacroRun(r) ==
    MacroLoops([ok |-> TRUE, out |-> [p \in 0..(OutLen(r) - 1) |-> Placeholder],
              coes |-> ZeroCoes], 0, r)

(***************************************************************************)
(* The consumers of the table: the two serializers and the index           *)
(* computation of RgbToSpectrumTable::color_to_polynomial.  Colours are    *)
(* integer triples over the denominator (RES-1)^10 and the grid            *)
(* coordinates are kept as exact fractions.                                *)
(***************************************************************************)
\* write_to_file: the four nested loops emit table[ptr .. ptr+2] and then
\* `ptr += 3`; the value of ptr when the loops reach nested position cur,
\* walking from position <<0,0,0,0>>
RECURSIVE FilePtr(_, _, _, _)
FilePtr(target, cur, ptr, r) ==
    IF cur = target THEN ptr
    ELSE LET c4 == IF cur[4] + 1 < r THEN <<cur[1], cur[2], cur[3], cur[4] + 1>>
                   ELSE IF cur[3] + 1 < r THEN <<cur[1], cur[2], cur[3] + 1, 0>>
                   ELSE IF cur[2] + 1 < r THEN <<cur[1], cur[2] + 1, 0, 0>>
                   ELSE <<cur[1] + 1, 0, 0, 0>>
         IN  FilePtr(target, c4, ptr + 3, r)

\* element [a][b][c][d][e] of the literal write_to_file emits
FileAt(table, r, a, b, c, d, e) == table[FilePtr(<<a, b, c, d>>, <<0, 0, 0, 0>>, 0, r) + e]

\* element [l][k][j][i][c] of the literal generate_data_table emits
DataTableAt(data, r, l, k, j, i, c) == data[3 * (((l * r + k) * r + j) * r + i) + c]

\* find_interval(sz, pred), pred given as the array of its values
RECURSIVE FindIntervalLoop(_, _, _)
FindIntervalLoop(first, size, pred) ==
    IF size <= 0 THEN first
    ELSE LET half == size \div 2
             mid == first + half
         IN  IF pred[mid] THEN FindIntervalLoop(mid + 1, size - (half + 1), pred)
             ELSE FindIntervalLoop(first, half, pred)

find_interval(sz, pred) ==
    IF sz <= 1 THEN 0
    ELSE LET result == FindIntervalLoop(1, sz - 2, pred) - 1
         IN  IF result >= sz THEN sz - 2
             ELSE IF result = 0 THEN 0
             ELSE result

\* z_node[k] = scale[k], numerators over (RES-1)^9
z_node(r) == [k \in 0..(r - 1) |-> ScaleAt(k, r)[1]]

\* the channel color_to_polynomial takes as the largest
MaxIdx(rgb) ==
    IF rgb[0] > rgb[1] THEN (IF rgb[0] > rgb[2] THEN 0 ELSE 2)
    ELSE (IF rgb[1] > rgb[2] THEN 1 ELSE 2)

Min(a, b) == IF a < b THEN a ELSE b

\* the table path of color_to_polynomial up to the weights, for a colour
\* whose channels are not all equal: x = rgb[(max_idx+1)%3] * (RES-1) / z as
\* the fraction xn/z, likewise y; xi, yi, zi; dx = x - xi as the fraction
\* dxn/z, likewise dy; dz as the fraction dzn/dzd
Lookup(rgb, r) ==
    LET max_idx == MaxIdx(rgb)
        z == rgb[max_idx]
        xn == rgb[(max_idx + 1) % 3] * (r - 1)
        yn == rgb[(max_idx + 2) % 3] * (r - 1)
        xi == Min(xn \div z, r - 2)
        yi == Min(yn \div z, r - 2)
        zi == find_interval(r, [n \in 0..(r - 1) |-> z_node(r)[n] * (r - 1) < z])
    IN  [max_idx |-> max_idx, z |-> z, xi |-> xi, yi |-> yi, zi |-> zi,
         dxn |-> xn - xi * z, dyn |-> yn - yi * z,
         dzn |-> z - z_node(r)[zi] * (r - 1),
         dzd |-> (z_node(r)[zi + 1] - z_node(r)[zi]) * (r - 1)]

(***************************************************************************)
(* Part II.  Binary floating point.  A float is <<m, e>>, the number       *)
(* m * 2^e, with m = 0 or 2^(PrecBits-1) <= |m| < 2^PrecBits.  Every       *)
(* operation returns the exact result rounded to nearest, ties to even, as *)
(* IEEE 754 does for f64; PrecBits stands in for the 53 bits of an f64 and *)
(* the exponent range is not limited (no overflow, no subnormals, no NaN). *)
(***************************************************************************)
PrecBits == 8
\* largest magnitude an RgbColor component is followed to
MaxComponent == 2

Abs(n) == IF n < 0 THEN 0 - n ELSE n
Sign(n) == IF n < 0 THEN 0 - 1 ELSE 1

\* number of binary digits of n >= 1
BitLen(n) == CHOOSE L \in 1..30 : 2^(L - 1) <= n /\ n < 2^L

\* the float nearest to m * 2^e, ties to even
Round(m, e) ==
    IF m = 0 THEN <<0, 0>>
    ELSE LET a == Abs(m)
             L == BitLen(a)
         IN  IF L <= PrecBits
               THEN <<m * 2^(PrecBits - L), e - (PrecBits - L)>>
               ELSE LET s == L - PrecBits
                        q == a \div 2^s
                        rem == a % 2^s
                        half == 2^(s - 1)
                        q1 == IF rem > half \/ (rem = half /\ q % 2 = 1) THEN q + 1 ELSE q
                    IN  IF q1 = 2^PrecBits
                          THEN <<Sign(m) * 2^(PrecBits - 1), e + s + 1>>
                          ELSE <<Sign(m) * q1, e + s>>

FZero == <<0, 0>>
FNeg(a) == <<0 - a[1], a[2]>>
FAbs(a) == <<Abs(a[1]), a[2]>>

\* a + b
FAdd(a, b) ==
    IF a[1] = 0 THEN b
    ELSE IF b[1] = 0 THEN a
    ELSE LET d == a[2] - b[2]
         IN  IF d > PrecBits + 2 THEN a
             ELSE IF 0 - d > PrecBits + 2 THEN b
             ELSE IF d >= 0 THEN Round(a[1] * 2^d + b[1], b[2])
             ELSE Round(a[1] + b[1] * 2^(0 - d), a[2])

\* a - b
FSub(a, b) == FAdd(a, FNeg(b))

\* a * b
FMul(a, b) == Round(a[1] * b[1], a[2] + b[2])

\* a / b for b # 0: a quotient of PrecBits+2 or more bits and a sticky bit
FDiv(a, b) ==
    IF a[1] = 0 THEN FZero
    ELSE LET num == Abs(a[1]) * 2^(PrecBits + 2)
             den == Abs(b[1])
             q == num \div den
             sticky == IF num % den = 0 THEN 0 ELSE 1
         IN  Round(Sign(a[1]) * Sign(b[1]) * (2 * q + sticky),
                   a[2] - b[2] - (PrecBits + 2) - 1)

\* a < b and a > b
FLt(a, b) == FSub(a, b)[1] < 0
FGt(a, b) == FLt(b, a)

\* f64::max
FMax(a, b) == IF FLt(a, b) THEN b ELSE a

\* the float of a small integer
FInt(n) == Round(n, 0)

(***************************************************************************)
(* lup_decompose and lup_solve for N = 3, in floating point.               *)
(***************************************************************************)
\* const N of the Jacobian: [[f64; 3]; 3]
LupN == 3

\* `for k in i..N { if a[k][i].abs() > max_a { max_a = ..; max_i = k } }`
\* from row k on, with the running maximum <<max_a, max_i>>
RECURSIVE PivotSearch(_, _, _, _)
PivotSearch(a, i, k, best) ==
    IF k >= LupN THEN best
    ELSE IF FGt(FAbs(a[k][i]), best[1])
        THEN PivotSearch(a, i, k + 1, <<FAbs(a[k][i]), k>>)
        ELSE PivotSearch(a, i, k + 1, best)

\* a.swap(i, max_i) / p.swap(i, max_i)
Swap(f, i, j) == [f EXCEPT ![i] = f[j], ![j] = f[i]]

\* `for k in (i + 1)..N { a[j][k] -= a[j][i] * a[i][k]; }` from column k on
RECURSIVE EliminateCols(_, _, _, _)
EliminateCols(a, i, j, k) ==
    IF k >= LupN THEN a
    ELSE EliminateCols([a EXCEPT ![j][k] = FSub(a[j][k], FMul(a[j][i], a[i][k]))],
                       i, j, k + 1)

\* `for j in (i + 1)..N { a[j][i] /= a[i][i]; .. }` from row j on
RECURSIVE EliminateRows(_, _, _)
EliminateRows(a, i, j) ==
    IF j >= LupN THEN a
    ELSE EliminateRows(
            EliminateCols([a EXCEPT ![j][i] = FDiv(a[j][i], a[i][i])], i, j, i + 1),
            i, j + 1)

\* `max_a < tol`
PivotTooSmall(max_a, tol) == FLt(max_a, tol)

\* `for i in 0..N { .. }` from column i on; the result is [ok, a, p]
RECURSIVE LupColumns(_, _, _, _)
LupColumns(a, p, i, tol) ==
    IF i >= LupN THEN [ok |-> TRUE, a |-> a, p |-> p]
    ELSE LET best == PivotSearch(a, i, i, <<FZero, i>>)
             max_i == best[2]
         IN  IF PivotTooSmall(best[1], tol) THEN [ok |-> FALSE, a |-> a, p |-> p]
             ELSE LET a1 == IF max_i # i THEN Swap(a, i, max_i) ELSE a
                      p1 == IF max_i # i
                              THEN [Swap(p, i, max_i) EXCEPT ![LupN] = @ + 1]
                              ELSE p
                  IN  LupColumns(EliminateRows(a1, i, i + 1), p1, i + 1, tol)

\* lup_decompose(&mut a, &mut p, tol): p[i] = i first
lup_decompose(a, tol) == LupColumns(a, [n \in 0..LupN |-> n], 0, tol)

\* `for k in lo..hi { x[i] -= a[i][k] * x[k]; }` from k on
RECURSIVE SubstituteRow(_, _, _, _, _)
SubstituteRow(a, x, i, k, hi) ==
    IF k >= hi THEN x
    ELSE SubstituteRow(a, [x EXCEPT ![i] = FSub(x[i], FMul(a[i][k], x[k]))], i, k + 1, hi)

\* `for i in 0..N { x[i] = b[p[i]]; for k in 0..i {..} }` from i on
RECURSIVE ForwardSubst(_, _, _, _, _)
ForwardSubst(a, p, b, x, i) ==
    IF i >= LupN THEN x
    ELSE ForwardSubst(a, p, b, SubstituteRow(a, [x EXCEPT ![i] = b[p[i]]], i, 0, i), i + 1)

\* `for i in (0..N).rev() { for k in (i + 1)..N {..}; x[i] /= a[i][i]; }` from i down
RECURSIVE BackSubst(_, _, _)
BackSubst(a, x, i) ==
    IF i < 0 THEN x
    ELSE LET x1 == SubstituteRow(a, x, i, i + 1, LupN)
         IN  BackSubst(a, [x1 EXCEPT ![i] = FDiv(x1[i], a[i][i])], i - 1)

lup_solve(a, p, b) ==
    BackSubst(a, ForwardSubst(a, p, b, [n \in 0..(LupN - 1) |-> FZero], 0), LupN - 1)

(***************************************************************************)
(* gauss_newton.  eval_residual and eval_jacobian integrate the sigmoid    *)
(* spectrum over 283 samples; their values are inputs of the model: each   *)
(* iteration receives some residual and some Jacobian from small sets that *)
(* contain regular, row-exchanging and singular matrices and residuals     *)
(* below and above the convergence threshold.                              *)
(***************************************************************************)
\* largest max_iter explored (the generator passes 15)
MaxIter == 3

\* 1.0e-15, the tolerance passed to lup_decompose: 9 * 2^-53
Tol == Round(9, 0 - 53)
\* 1.0e-6, the convergence threshold: 67 * 2^-26
Threshold == Round(67, 0 - 26)
\* 200.0
CoefficientCap == FInt(200)

Vec3(a, b, c) == [n \in 0..2 |-> IF n = 0 THEN a ELSE IF n = 1 THEN b ELSE c]

\* values eval_residual may produce
ResidualSet ==
    {Vec3(FZero, FZero, FZero),
     Vec3(Round(1, 0 - 12), FZero, FZero),
     Vec3(FInt(1), FInt(0 - 2), FInt(70)),
     Vec3(FInt(276), FInt(0 - 1), FInt(2))}

\* values eval_jacobian may produce
JacobianSet ==
    {Vec3(Vec3(FInt(0 - 1), FZero, FZero), Vec3(FZero, FInt(0 - 1), FZero),
          Vec3(FZero, FZero, FInt(0 - 1))),
     Vec3(Vec3(FZero, FInt(2), FInt(1)), Vec3(FInt(4), FInt(1), FZero),
          Vec3(FInt(0 - 2), FInt(3), FInt(5))),
     Vec3(Vec3(FInt(1), FInt(1), FZero), Vec3(FInt(1), FInt(1), FZero),
          Vec3(FZero, FZero, FInt(1))),
     Vec3(Vec3(FZero, FZero, FZero), Vec3(FZero, FZero, FZero),
          Vec3(FZero, FZero, FZero))}

\* coefficients the caller may pass in
InitialCoefficients ==
    {Vec3(FZero, FZero, FZero),
     Vec3(FInt(3), FInt(0 - 1), FInt(150)),
     Vec3(FInt(250), FZero, FInt(0 - 7))}

\* `coefficients[j] -= x[j];`
NewtonUpdate(coefficients, x) == [j \in 0..2 |-> FSub(coefficients[j], x[j])]

\* `let mut r = 0.0; for j in 0..3 { r += sqr(residual[j]); }`
ResidualNorm(residual) ==
    FAdd(FAdd(FAdd(FZero, FMul(residual[0], residual[0])),
              FMul(residual[1], residual[1])),
         FMul(residual[2], residual[2]))

\* faulty variant: the third coefficient is left out of the maximum
MaxOfFirstTwo(coefficients) == FMax(coefficients[0], coefficients[1])
\* `coefficients[0].max(coefficients[1]).max(coefficients[2])`
MaxCoefficient(coefficients) ==
    FMax(FMax(coefficients[0], coefficients[1]), coefficients[2])

\* `if max_coefficients > 200.0 { let scale = 200.0 / max_coefficients; .. *= scale }`
Rescale(coefficients) ==
    LET max_coefficients == MaxCoefficient(coefficients)
    IN  IF FGt(max_coefficients, CoefficientCap)
          THEN LET scale == FDiv(CoefficientCap, max_coefficients)
               IN  [j \in 0..2 |-> FMul(coefficients[j], scale)]
          ELSE coefficients

\* faulty variant: no early exit
NeverBreak(r) == FALSE
\* `if r < 1.0e-6 { break; }`
BreakTest(r) == FLt(r, Threshold)

\* faulty variant: None when the budget runs out without convergence
ExitValueIfConverged(below) == IF below THEN "Some" ELSE "None"
\* the value after the loop: `Some(())`
ExitValue(below) == "Some"

\* one pass through the body of `for _ in 0..max_iter`
GNIterate ==
    /\ gnPc = "loop"
    /\ gnIter < gnMaxIter
    /\ \E residual \in ResidualSet : \E jacobian \in JacobianSet :
         LET d == lup_decompose(jacobian, Tol)
         IN  /\ gnIter' = gnIter + 1
             /\ IF ~d.ok
                  THEN \* `lup_decompose(..)?` returns None
                       /\ gnPc' = "returned"
                       /\ gnRet' = "None"
                       /\ gnSingular' = TRUE
                       /\ gnLast' = [ok |-> FALSE, r |-> FZero, pre |-> gnCoes,
                                     entry |-> gnCoes]
                       /\ UNCHANGED <<gnCoes, gnBelow>>
                  ELSE LET x == lup_solve(d.a, d.p, residual)
                           r == ResidualNorm(residual)
                           pre == NewtonUpdate(gnCoes, x)
                       IN  /\ gnCoes' = Rescale(pre)
                           /\ gnLast' = [ok |-> TRUE, r |-> r, pre |-> pre,
                                         entry |-> gnCoes]
                           /\ gnBelow' = (gnBelow \/ FLt(r, Threshold))
                           /\ IF BreakTest(r)
                                THEN /\ gnPc' = "returned"
                                     /\ gnRet' = ExitValue(TRUE)
                                ELSE UNCHANGED <<gnPc, gnRet>>
                           /\ UNCHANGED gnSingular
    /\ UNCHANGED <<gnMaxIter, gnCoes0>>
    /\ UNCHANGED <<genVars, auxVars>>

\* the range 0..max_iter is exhausted
GNExit ==
    /\ gnPc = "loop"
    /\ gnIter >= gnMaxIter
    /\ gnPc' = "returned"
    /\ gnRet' = ExitValue(gnBelow)
    /\ UNCHANGED <<gnMaxIter, gnIter, gnCoes, gnCoes0, gnLast, gnSingular, gnBelow>>
    /\ UNCHANGED <<genVars, auxVars>>

InitGN ==
    /\ res = 0
    /\ singular = NoRgb
    /\ mainPc = "off"
    /\ mainL = 0
    /\ mainJ = 0
    /\ workers = << >>
    /\ out = << >>
    /\ holder = NoWorker
    /\ poisoned = FALSE
    /\ writers = << >>
    /\ fitlog = << >>
    /\ gnPc = "loop"
    /\ gnMaxIter \in 0..MaxIter
    /\ gnIter = 0
    /\ gnCoes \in InitialCoefficients
    /\ gnCoes0 = gnCoes
    /\ gnRet = "-"
    /\ gnLast = [ok |-> TRUE, r |-> FZero, pre |-> gnCoes, entry |-> gnCoes]
    /\ gnSingular = FALSE
    /\ gnBelow = FALSE
    /\ AuxOff

NextGN == GNIterate \/ GNExit

SpecGN == InitGN /\ [][NextGN]_vars

(***************************************************************************)
(* Part III.  The scale axis and the runtime lookup in floating point.     *)
(* Two widths are in play: the generator computes in f64 and stores f32,   *)
(* the lookup computes in f32.  PrecBits stands in for the 24 bits of an   *)
(* f32 here and WideBits for the 53 bits of an f64.  Division by zero      *)
(* yields the IEEE special values, which are encoded in the otherwise      *)
(* unused pairs <<0, e>> with e > 0.                                       *)
(***************************************************************************)
WideBits == PrecBits + 5

\* the float of P bits nearest to m * 2^e, ties to even
RoundTo(P, m, e) ==
    IF m = 0 THEN <<0, 0>>
    ELSE LET a == Abs(m)
             L == BitLen(a)
         IN  IF L <= P
               THEN <<m * 2^(P - L), e - (P - L)>>
               ELSE LET s == L - P
                        q == a \div 2^s
                        rem == a % 2^s
                        half == 2^(s - 1)
                        q1 == IF rem > half \/ (rem = half /\ q % 2 = 1) THEN q + 1 ELSE q
                    IN  IF q1 = 2^P
                          THEN <<Sign(m) * 2^(P - 1), e + s + 1>>
                          ELSE <<Sign(m) * q1, e + s>>

\* a + b, a - b, a * b and a / b (b # 0) of two P-bit floats
AddTo(P, a, b) ==
    IF a[1] = 0 THEN b
    ELSE IF b[1] = 0 THEN a
    ELSE LET d == a[2] - b[2]
         IN  IF d > P + 2 THEN a
             ELSE IF 0 - d > P + 2 THEN b
             ELSE IF d >= 0 THEN RoundTo(P, a[1] * 2^d + b[1], b[2])
             ELSE RoundTo(P, a[1] + b[1] * 2^(0 - d), a[2])

SubTo(P, a, b) == AddTo(P, a, <<0 - b[1], b[2]>>)

MulTo(P, a, b) == RoundTo(P, a[1] * b[1], a[2] + b[2])

DivTo(P, a, b) ==
    IF a[1] = 0 THEN <<0, 0>>
    ELSE LET num == Abs(a[1]) * 2^(P + 2)
             den == Abs(b[1])
             q == num \div den
             sticky == IF num % den = 0 THEN 0 ELSE 1
         IN  RoundTo(P, Sign(a[1]) * Sign(b[1]) * (2 * q + sticky),
                     a[2] - b[2] - (P + 2) - 1)

\* smooth_step in f64: x * x * (3.0 - 2.0 * x)
smooth_step_f64(x) ==
    MulTo(WideBits, MulTo(WideBits, x, x),
          SubTo(WideBits, RoundTo(WideBits, 3, 0),
                MulTo(WideBits, RoundTo(WideBits, 2, 0), x)))

\* faulty variant: smooth_step applied once
ScaleF32SingleStep(k, r) ==
    LET x == DivTo(WideBits, RoundTo(WideBits, k, 0), RoundTo(WideBits, r - 1, 0))
        s == smooth_step_f64(x)
    IN  RoundTo(PrecBits, s[1], s[2])

\* scale.push(smooth_step(smooth_step(k as f64 / (res - 1) as f64)) as f32)
ScaleF32(k, r) ==
    LET x == DivTo(WideBits, RoundTo(WideBits, k, 0), RoundTo(WideBits, r - 1, 0))
        s == smooth_step_f64(smooth_step_f64(x))
    IN  RoundTo(PrecBits, s[1], s[2])

\* the scale vector the generator returns, index 0..res-1
ScaleVec(r) == [k \in 0..(r - 1) |-> ScaleF32(k, r)]

\* the special values of IEEE 754
NaN == <<0, 1>>
PosInf == <<0, 2>>
NegInf == <<0, 3>>
IsNaN(a) == a = NaN
IsFinite(a) == a[1] # 0 \/ a[2] = 0
\* sign of a value that is not NaN; zero counts as +0.0
XSign(a) == IF a = NegInf THEN 0 - 1 ELSE IF a = PosInf THEN 1 ELSE Sign(a[1])
SignedInf(s) == IF s < 0 THEN NegInf ELSE PosInf

\* f32 a * b, a / b, a - b with the special values
XMul(a, b) ==
    IF IsNaN(a) \/ IsNaN(b) THEN NaN
    ELSE IF IsFinite(a) /\ IsFinite(b) THEN FMul(a, b)
    ELSE IF a = FZero \/ b = FZero THEN NaN
    ELSE SignedInf(XSign(a) * XSign(b))

XDiv(a, b) ==
    IF IsNaN(a) \/ IsNaN(b) THEN NaN
    ELSE IF ~IsFinite(a) THEN (IF ~IsFinite(b) THEN NaN ELSE SignedInf(XSign(a) * XSign(b)))
    ELSE IF ~IsFinite(b) THEN FZero
    ELSE IF b = FZero THEN (IF a = FZero THEN NaN ELSE SignedInf(XSign(a)))
    ELSE FDiv(a, b)

XSub(a, b) ==
    IF IsNaN(a) \/ IsNaN(b) THEN NaN
    ELSE IF IsFinite(a) /\ IsFinite(b) THEN FSub(a, b)
    ELSE IF ~IsFinite(a) /\ ~IsFinite(b) THEN (IF a = b THEN NaN ELSE a)
    ELSE IF ~IsFinite(a) THEN a
    ELSE SignedInf(0 - XSign(b))

\* f32 comparisons: every comparison with NaN is false
XLt(a, b) ==
    IF IsNaN(a) \/ IsNaN(b) \/ a = b THEN FALSE
    ELSE IF a = NegInf \/ b = PosInf THEN TRUE
    ELSE IF a = PosInf \/ b = NegInf THEN FALSE
    ELSE FLt(a, b)
XGt(a, b) == XLt(b, a)
XEq(a, b) == ~IsNaN(a) /\ ~IsNaN(b) /\ a = b

\* usize::MAX, as far as `.min(RES - 2)` can tell
UsizeMax == 2^30

\* `x as usize`: truncation towards zero, saturating, NaN to 0
CastUsize(x) ==
    IF IsNaN(x) \/ x = NegInf THEN 0
    ELSE IF x = PosInf THEN UsizeMax
    ELSE IF x[1] <= 0 THEN 0
    ELSE IF x[2] >= 0 THEN (IF x[2] + PrecBits > 30 THEN UsizeMax ELSE x[1] * 2^(x[2]))
    ELSE IF 0 - x[2] > 30 THEN 0
    ELSE x[1] \div 2^(0 - x[2])

\* largest q with q * q <= n, searched between lo and hi
RECURSIVE ISqrt(_, _, _)
ISqrt(n, lo, hi) ==
    IF lo >= hi THEN lo
    ELSE LET mid == (lo + hi + 1) \div 2
         IN  IF mid * mid <= n THEN ISqrt(n, mid, hi) ELSE ISqrt(n, lo, mid - 1)

\* f32::sqrt, correctly rounded; NaN below zero
XSqrt(a) ==
    IF IsNaN(a) \/ a = NegInf THEN NaN
    ELSE IF a = PosInf \/ a = FZero THEN a
    ELSE IF a[1] < 0 THEN NaN
    ELSE LET s == IF (a[2] - PrecBits) % 2 = 0 THEN PrecBits + 2 ELSE PrecBits + 3
             n == a[1] * 2^s
             q == ISqrt(n, 0, 2^PrecBits * 4)
             sticky == IF q * q = n THEN 0 ELSE 1
         IN  Round(2 * q + sticky, ((a[2] - s) \div 2) - 1)

(***************************************************************************)
(* The scale loop of generate_spectrum_tables.                             *)
(***************************************************************************)
\* let mut scale = Vec::with_capacity(res);
InitScale ==
    /\ GenOff /\ GnOff /\ LkOff /\ StOff /\ ItOff /\ MvOff /\ ExtOff
    /\ scPc = "push"
    /\ scRes \in 2..MaxScaleRes
    /\ scaleOut = << >>

\* one iteration of `for k in 0..res { scale.push(..) }`
ScalePush ==
    /\ scPc = "push"
    /\ Len(scaleOut) < scRes
    /\ scaleOut' = Append(scaleOut, ScaleF32(Len(scaleOut), scRes))
    /\ UNCHANGED <<scPc, scRes>>
    /\ UNCHANGED notSc

\* the loop is over; the vector is what the function returns as `scale`
ScaleReturn ==
    /\ scPc = "push"
    /\ Len(scaleOut) >= scRes
    /\ scPc' = "done"
    /\ UNCHANGED <<scRes, scaleOut>>
    /\ UNCHANGED notSc

NextScale == ScalePush \/ ScaleReturn

SpecScale == InitScale /\ [][NextScale]_vars

(***************************************************************************)
(* RgbToSpectrumTable::color_to_polynomial, one action per stretch of its  *)
(* code, with find_interval's loop unrolled into steps.  The table it      *)
(* reads is the one the generator writes: z_node is the scale vector.      *)
(***************************************************************************)
z_node_f32(r) == ScaleVec(r)

\* rgb.r == rgb.g && rgb.g == rgb.b
AllEqual(rgb) == XEq(rgb[0], rgb[1]) /\ XEq(rgb[1], rgb[2])

\* (rgb.r - 0.5) / (rgb.r * (1.0 - rgb.r)).sqrt()
AchromaticC0(r) ==
    XDiv(XSub(r, Round(1, 0 - 1)), XSqrt(XMul(r, XSub(FInt(1), r))))

\* faulty variant: the first channel is always taken as the largest
MaxIdxFirstChannel(rgb) == 0
\* the nested `if rgb[0] > rgb[1] { .. } else { .. }`
MaxIdxF32(rgb) ==
    IF XGt(rgb[0], rgb[1]) THEN (IF XGt(rgb[0], rgb[2]) THEN 0 ELSE 2)
    ELSE (IF XGt(rgb[1], rgb[2]) THEN 1 ELSE 2)

\* rgb[n] * (RBG_TO_SPECTRUM_TABLE_RES as f32 - 1.0) / z
GridCoordinate(v, z, r) == XDiv(XMul(v, FSub(FInt(r), FInt(1))), z)

\* faulty variant: the early return is taken when the first two channels agree
LkAchromaticTwoChannels ==
    /\ lkPc = "entry"
    /\ XEq(lkRgb[0], lkRgb[1])
    /\ lkRet' = [path |-> "closed", c2 |-> FZero, c1 |-> FZero,
                 c0 |-> AchromaticC0(lkRgb[0])]
    /\ lkPc' = "returned"
    /\ UNCHANGED <<lkRes, lkRgb, lkVertex, lkIdx, lkFirst, lkSize, lkZi, lkReads>>
    /\ UNCHANGED notLk

\* if rgb.r == rgb.g && rgb.g == rgb.b { return RgbSigmoidPolynomial::new(0.0, 0.0, ..) }
LkAchromatic ==
    /\ lkPc = "entry"
    /\ AllEqual(lkRgb)
    /\ lkRet' = [path |-> "closed", c2 |-> FZero, c1 |-> FZero,
                 c0 |-> AchromaticC0(lkRgb[0])]
    /\ lkPc' = "returned"
    /\ UNCHANGED <<lkRes, lkRgb, lkVertex, lkIdx, lkFirst, lkSize, lkZi, lkReads>>
    /\ UNCHANGED notLk

\* faulty variant: xi and yi without `.min(RES - 2)`
LkIndicesNoClamp ==
    /\ lkPc = "entry"
    /\ ~AllEqual(lkRgb)
    /\ LET max_idx == MaxIdxF32(lkRgb)
           z == lkRgb[max_idx]
           x == GridCoordinate(lkRgb[(max_idx + 1) % 3], z, lkRes)
           y == GridCoordinate(lkRgb[(max_idx + 2) % 3], z, lkRes)
       IN  lkIdx' = [max_idx |-> max_idx, z |-> z, x |-> x, y |-> y,
                     xi |-> CastUsize(x),
                     yi |-> CastUsize(y)]
    /\ IF lkRes <= 1
         THEN lkPc' = "interp" /\ lkFirst' = 1 /\ lkSize' = 0 /\ lkZi' = 0
         ELSE lkPc' = "search" /\ lkFirst' = 1 /\ lkSize' = lkRes - 2 /\ UNCHANGED lkZi
    /\ UNCHANGED <<lkRes, lkRgb, lkVertex, lkReads, lkRet>>
    /\ UNCHANGED notLk
\* max_idx, z, x, y, xi, yi, and the entry of find_interval(RES, ..):
\* `let mut first = 1; let mut size = sz - 2;`
LkIndices ==
    /\ lkPc = "entry"
    /\ ~AllEqual(lkRgb)
    /\ LET max_idx == MaxIdxF32(lkRgb)
           z == lkRgb[max_idx]
           x == GridCoordinate(lkRgb[(max_idx + 1) % 3], z, lkRes)
           y == GridCoordinate(lkRgb[(max_idx + 2) % 3], z, lkRes)
       IN  lkIdx' = [max_idx |-> max_idx, z |-> z, x |-> x, y |-> y,
                     xi |-> Min(CastUsize(x), lkRes - 2),
                     yi |-> Min(CastUsize(y), lkRes - 2)]
    /\ IF lkRes <= 1
         THEN lkPc' = "interp" /\ lkFirst' = 1 /\ lkSize' = 0 /\ lkZi' = 0
         ELSE lkPc' = "search" /\ lkFirst' = 1 /\ lkSize' = lkRes - 2 /\ UNCHANGED lkZi
    /\ UNCHANGED <<lkRes, lkRgb, lkVertex, lkReads, lkRet>>
    /\ UNCHANGED notLk

\* faulty variant: pred = |i| self.z_node[i] <= z
LkSearchStepLessEqual ==
    /\ lkPc = "search"
    /\ lkSize > 0
    /\ LET half == lkSize \div 2
           mid == lkFirst + half
       IN  IF mid \notin 0..(lkRes - 1)
             THEN lkPc' = "panicked" /\ UNCHANGED <<lkFirst, lkSize, lkReads>>
             ELSE /\ lkReads' = lkReads \cup {<<"z_node", mid>>}
                  /\ UNCHANGED lkPc
                  /\ IF ~XGt(z_node_f32(lkRes)[mid], lkIdx.z)
                       THEN lkFirst' = mid + 1 /\ lkSize' = lkSize - (half + 1)
                       ELSE lkSize' = half /\ UNCHANGED lkFirst
    /\ UNCHANGED <<lkRes, lkRgb, lkVertex, lkIdx, lkZi, lkRet>>
    /\ UNCHANGED notLk
\* one iteration of `while size > 0`, with pred = |i| self.z_node[i] < z
LkSearchStep ==
    /\ lkPc = "search"
    /\ lkSize > 0
    /\ LET half == lkSize \div 2
           mid == lkFirst + half
       IN  IF mid \notin 0..(lkRes - 1)
             THEN lkPc' = "panicked" /\ UNCHANGED <<lkFirst, lkSize, lkReads>>
             ELSE /\ lkReads' = lkReads \cup {<<"z_node", mid>>}
                  /\ UNCHANGED lkPc
                  /\ IF XLt(z_node_f32(lkRes)[mid], lkIdx.z)
                       THEN lkFirst' = mid + 1 /\ lkSize' = lkSize - (half + 1)
                       ELSE lkSize' = half /\ UNCHANGED lkFirst
    /\ UNCHANGED <<lkRes, lkRgb, lkVertex, lkIdx, lkZi, lkRet>>
    /\ UNCHANGED notLk

\* faulty variant: `let result = first;`
LkSearchExitNoDecrement ==
    /\ lkPc = "search"
    /\ lkSize <= 0
    /\ LET result == lkFirst
       IN  lkZi' = IF result >= lkRes THEN lkRes - 2
                   ELSE IF result = 0 THEN 0
                   ELSE result
    /\ lkPc' = "interp"
    /\ UNCHANGED <<lkRes, lkRgb, lkVertex, lkIdx, lkFirst, lkSize, lkReads, lkRet>>
    /\ UNCHANGED notLk
\* the end of find_interval: result = first - 1, brought into range
LkSearchExit ==
    /\ lkPc = "search"
    /\ lkSize <= 0
    /\ LET result == lkFirst - 1
       IN  lkZi' = IF result >= lkRes THEN lkRes - 2
                   ELSE IF result = 0 THEN 0
                   ELSE result
    /\ lkPc' = "interp"
    /\ UNCHANGED <<lkRes, lkRgb, lkVertex, lkIdx, lkFirst, lkSize, lkReads, lkRet>>
    /\ UNCHANGED notLk

\* the indices the interpolation reads: z_node[zi], z_node[zi + 1] and
\* coefficients[max_idx][zi + dz][yi + dy][xi + dx] for dx, dy, dz in {0, 1}
InterpolationReads(ix, zi) ==
    {<<"z_node", zi>>, <<"z_node", zi + 1>>}
        \cup {<<"coefficients", ix.max_idx, zi + d[1], ix.yi + d[2], ix.xi + d[3]>> :
                d \in {0, 1} \X {0, 1} \X {0, 1}}

\* a read is inside its array
InBounds(rd, r) ==
    IF rd[1] = "z_node" THEN rd[2] \in 0..(r - 1)
    ELSE /\ rd[2] \in 0..2
         /\ rd[3] \in 0..(r - 1) /\ rd[4] \in 0..(r - 1) /\ rd[5] \in 0..(r - 1)

\* dx, dy, dz and the trilinear interpolation; an index outside an array panics
LkInterpolate ==
    /\ lkPc = "interp"
    /\ LET rds == InterpolationReads(lkIdx, lkZi)
           zn == z_node_f32(lkRes)
       IN  IF \E rd \in rds : ~InBounds(rd, lkRes)
             THEN lkPc' = "panicked" /\ UNCHANGED <<lkReads, lkRet>>
             ELSE /\ lkReads' = lkReads \cup rds
                  /\ lkRet' = [path |-> "table",
                               dx |-> XSub(lkIdx.x, FInt(lkIdx.xi)),
                               dy |-> XSub(lkIdx.y, FInt(lkIdx.yi)),
                               dz |-> XDiv(XSub(lkIdx.z, zn[lkZi]),
                                           XSub(zn[lkZi + 1], zn[lkZi]))]
                  /\ lkPc' = "returned"
    /\ UNCHANGED <<lkRes, lkRgb, lkVertex, lkIdx, lkFirst, lkSize, lkZi>>
    /\ UNCHANGED notLk

\* the colour of grid vertex (l, k, j, i) rebuilt in f32 from the indices:
\* channel l = z_node[k], the next i/(RES-1) * z_node[k], the last j/(RES-1) * z_node[k]
VertexRgb(l, k, j, i, r) ==
    LET b == ScaleF32(k, r)
        x == FMul(FDiv(FInt(i), FInt(r - 1)), b)
        y == FMul(FDiv(FInt(j), FInt(r - 1)), b)
    IN  [c \in 0..2 |-> IF c = l THEN b ELSE IF c = (l + 1) % 3 THEN x ELSE y]

Vertices(r) == (0..2) \X (0..(r - 1)) \X (0..(r - 1)) \X (0..(r - 1))

\* channel values off the grid: 0, 1, values outside [0, 1], the special
\* values, and three values between 1/2 and 1
Samples ==
    {FZero, FInt(1), FNeg(FInt(1)), FInt(2), NaN, PosInf}
        \cup {Round(2^(PrecBits - 1) + 2 + 8 * n, 0 - PrecBits) : n \in 5..7}

SampleColours == {[c \in 0..2 |-> v[c + 1]] : v \in Samples \X Samples \X Samples}

\* a call of color_to_polynomial on a table of resolution RES
InitLookup ==
    /\ GenOff /\ GnOff /\ ScOff /\ StOff /\ ItOff /\ MvOff /\ ExtOff
    /\ lkPc = "entry"
    /\ lkRes \in 2..MaxLookupRes
    /\ \/ /\ lkVertex \in Vertices(lkRes)
          /\ lkRgb = VertexRgb(lkVertex[1], lkVertex[2], lkVertex[3], lkVertex[4], lkRes)
       \/ /\ lkVertex = << >>
          /\ lkRgb \in SampleColours
    /\ lkIdx = << >>
    /\ lkFirst = 0
    /\ lkSize = 0
    /\ lkZi = 0
    /\ lkReads = {}
    /\ lkRet = << >>

NextLookup == LkAchromatic \/ LkIndices \/ LkSearchStep \/ LkSearchExit \/ LkInterpolate

SpecLookup == InitLookup /\ [][NextLookup]_vars

(***************************************************************************)
(* The stores of one cell in generate_spectrum_tables (f64 arithmetic,     *)
(* cast to f32) followed by RgbSigmoidPolynomial::get_value on the stored  *)
(* triple (f32 arithmetic with fused multiply-add).                        *)
(***************************************************************************)
\* an integer as f64, and an f32 as f64
WInt(n) == RoundTo(WideBits, n, 0)
Widen(v) == RoundTo(WideBits, v[1], v[2])
\* `as f32`
CastF32(v) == RoundTo(PrecBits, v[1], v[2])

\* f32::mul_add(t, x, y): t * x + y rounded once
FmaTo(P, t, x, y) ==
    LET pm == t[1] * x[1]
        pe == t[2] + x[2]
        d == pe - y[2]
    IN  IF pm = 0 THEN y
        ELSE IF y[1] = 0 THEN RoundTo(P, pm, pe)
        ELSE IF d > P + 1 THEN RoundTo(P, pm * 4 + Sign(y[1]), pe - 2)
        ELSE IF d >= 0 THEN RoundTo(P, pm * 2^d + y[1], y[2])
        ELSE IF 0 - d > 2 * P + 1 THEN RoundTo(P, y[1] * 4 + Sign(pm), y[2] - 2)
        ELSE RoundTo(P, y[1] * 2^(0 - d) + pm, pe)

\* let c0 = 360.0; let c1 = 1.0 / (830.0 - 360.0);
StoreC0 == WInt(360)
StoreC1 == DivTo(WideBits, WInt(1), SubTo(WideBits, WInt(830), WInt(360)))
\* crate::sqr
SqrF64(x) == MulTo(WideBits, x, x)

\* faulty variant: the linear term is stored with the wrong sign of its second part
StoredF32WrongSign(coes) ==
    LET a_in == coes[0]
        b_in == coes[1]
        c_in == coes[2]
        M(x, y) == MulTo(WideBits, x, y)
    IN  [n \in 0..2 |->
            IF n = 0 THEN CastF32(M(a_in, SqrF64(StoreC1)))
            ELSE IF n = 1
              THEN CastF32(AddTo(WideBits, M(b_in, StoreC1),
                                 M(M(M(WInt(2), a_in), StoreC0), SqrF64(StoreC1))))
            ELSE CastF32(AddTo(WideBits,
                               SubTo(WideBits, c_in, M(M(b_in, StoreC0), StoreC1)),
                               M(M(a_in, SqrF64(StoreC0)), SqrF64(StoreC1))))]

\* out_guard[3 * idx] = (a_in * sqr(c1)) as f32;
\* out_guard[3 * idx + 1] = (b_in * c1 - 2.0 * a_in * c0 * sqr(c1)) as f32;
\* out_guard[3 * idx + 2] = (c_in - b_in * c0 * c1 + a_in * sqr(c0) * sqr(c1)) as f32;
StoredF32(coes) ==
    LET a_in == coes[0]
        b_in == coes[1]
        c_in == coes[2]
        M(x, y) == MulTo(WideBits, x, y)
    IN  [n \in 0..2 |->
            IF n = 0 THEN CastF32(M(a_in, SqrF64(StoreC1)))
            ELSE IF n = 1
              THEN CastF32(SubTo(WideBits, M(b_in, StoreC1),
                                 M(M(M(WInt(2), a_in), StoreC0), SqrF64(StoreC1))))
            ELSE CastF32(AddTo(WideBits,
                               SubTo(WideBits, c_in, M(M(b_in, StoreC0), StoreC1)),
                               M(M(a_in, SqrF64(StoreC0)), SqrF64(StoreC1))))]

\* f32::mul_add with the special values
XFma(t, x, y) ==
    IF IsNaN(t) \/ IsNaN(x) \/ IsNaN(y) THEN NaN
    ELSE IF IsFinite(t) /\ IsFinite(x)
      THEN (IF IsFinite(y) THEN FmaTo(PrecBits, t, x, y) ELSE y)
    ELSE IF t = FZero \/ x = FZero THEN NaN
    ELSE LET product == SignedInf(XSign(t) * XSign(x))
         IN  IF IsFinite(y) \/ y = product THEN product ELSE NaN

\* calc_polynomial!(lambda, c0, c1, c2) = lambda.mul_add(lambda.mul_add(c2, c1), c0)
CalcPolynomial(lambda, c0, c1, c2) == XFma(lambda, XFma(lambda, c2, c1), c0)

\* faulty variant: without the is_infinite test, where inf / inf is NaN
SigmoidF32NoInfiniteTest(x) ==
    IF ~IsFinite(x) THEN NaN
    ELSE FMul(Round(1, 0 - 1),
              FAdd(FInt(1), FDiv(x, XSqrt(FAdd(FInt(1), FMul(x, x))))))

\* RgbSigmoidPolynomial::sigmoid
SigmoidF32(x) ==
    IF x = PosInf THEN FInt(1)
    ELSE IF x = NegInf THEN FZero
    ELSE IF IsNaN(x) THEN NaN
    ELSE FMul(Round(1, 0 - 1),
              FAdd(FInt(1), FDiv(x, XSqrt(FAdd(FInt(1), FMul(x, x))))))

\* the quadratic as the fitter evaluates it (eval_residual):
\* lambda = (lambda_tbl[i] - 360) / (830 - 360); x = x * lambda + coefficients[j]
FittedAt(coes, lambda_nm) ==
    LET t == DivTo(WideBits, SubTo(WideBits, lambda_nm, WInt(360)),
                   SubTo(WideBits, WInt(830), WInt(360)))
        x1 == AddTo(WideBits, MulTo(WideBits, coes[0], t), coes[1])
    IN  AddTo(WideBits, MulTo(WideBits, x1, t), coes[2])

\* coefficient values a fit may return, and wavelengths
CoefSamples == {WInt(0 - 50), WInt(0 - 3), WInt(0), WInt(1), WInt(7)}
LambdaSamples == {FInt(360), FInt(480), FInt(600), FInt(720), FInt(800)}

InitStore ==
    /\ GenOff /\ GnOff /\ ScOff /\ LkOff /\ ItOff /\ MvOff /\ ExtOff
    /\ stPc = "store"
    /\ stCoes \in [0..2 -> CoefSamples]
    /\ stLambda \in LambdaSamples
    /\ stOut = << >>
    /\ stPoly = << >>
    /\ stValue = << >>

\* the three stores of a cell
StStore ==
    /\ stPc = "store"
    /\ stOut' = StoredF32(stCoes)
    /\ stPc' = "eval"
    /\ UNCHANGED <<stCoes, stLambda, stPoly, stValue>>
    /\ UNCHANGED notSt

\* RgbSigmoidPolynomial::new(c[0], c[1], c[2]).get_value(lambda)
StGetValue ==
    /\ stPc = "eval"
    /\ LET c2 == stOut[0]
           c1 == stOut[1]
           c0 == stOut[2]
           p == CalcPolynomial(stLambda, c0, c1, c2)
       IN  /\ stPoly' = p
           /\ stValue' = SigmoidF32(p)
    /\ stPc' = "done"
    /\ UNCHANGED <<stCoes, stLambda, stOut>>
    /\ UNCHANGED notSt

NextStore == StStore \/ StGetValue

SpecStore == InitStore /\ [][NextStore]_vars

\* every f32 with exponent in a band around 1, of either sign
SweepFloats ==
    {<<sg * m, e>> : sg \in {0 - 1, 1}, m \in (2^(PrecBits - 1))..(2^PrecBits - 1),
                     e \in (0 - PrecBits - 6)..4}

\* coefficient triples <<c2, c1, c0>> handed to RgbSigmoidPolynomial::new: the
\* closed form of color_to_polynomial for r = g = b, triples (0, 0, c0) over a
\* band of floats, interpolated table entries, and triples with special values
ValueTriples ==
    {Vec3(FZero, FZero, AchromaticC0(r)) :
         r \in {FZero, FInt(1), Round(1, 0 - 1), Round(1, 0 - 3), Round(7, 0 - 3)}}
    \cup {Vec3(FZero, FZero, c) : c \in SweepFloats \cup {FZero, PosInf, NegInf}}
    \cup {StoredF32([n \in 0..2 |-> WInt(k[n + 1])]) :
             k \in {<<0 - 50, 7, 1>>, <<0 - 3, 0 - 50, 7>>, <<1, 1, 1>>, <<7, 0 - 3, 0 - 50>>}}
    \cup {Vec3(FZero, FZero, NaN), Vec3(PosInf, NegInf, FZero),
          Vec3(FZero, PosInf, NegInf), Vec3(Round(1, 0 - 16), FZero, PosInf)}

\* a polynomial is built from a triple and get_value is called on it
InitValue ==
    /\ GenOff /\ GnOff /\ ScOff /\ LkOff /\ ItOff /\ MvOff /\ ExtOff
    /\ stPc = "eval"
    /\ stCoes = << >>
    /\ stLambda \in LambdaSamples
    /\ stOut \in ValueTriples
    /\ stPoly = << >>
    /\ stValue = << >>

SpecValue == InitValue /\ [][StGetValue]_vars

(***************************************************************************)
(* The sample loop of init_tables.  Every weight is one of three f64       *)
(* multiples of h = (CIE_LAMBDA_MAX - CIE_LAMBDA_MIN) / (CIE_FINE_SAMPLES  *)
(* - 1); the loop is recorded by the multiple chosen for each sample, in   *)
(* eighths (0.375 = 3/8, 0.75 = 6/8, 1.125 = 9/8).                         *)
(***************************************************************************)
CIE_LAMBDA_MIN == 360
CIE_LAMBDA_MAX == 830
CIE_SAMPLES == 95
CIE_FINE_SAMPLES == (CIE_SAMPLES - 1) * 3 + 1

\* faulty variant: the guard tests the index itself
WeightEighthsGuardOnIndex(i) ==
    IF i = 0 \/ i = CIE_FINE_SAMPLES - 1 THEN 3
    ELSE IF i % 3 = 2 THEN 6
    ELSE 9

\* let weight = match i { 0 | CIE_FINE_SAMPLES_MINUS_1 => 0.375 * h,
\*                        _ if (i - 1) % 3 == 2 => 0.75 * h, _ => 1.125 * h };
WeightEighths(i) ==
    IF i = 0 \/ i = CIE_FINE_SAMPLES - 1 THEN 3
    ELSE IF (i - 1) % 3 = 2 THEN 6
    ELSE 9

InitTables ==
    /\ GenOff /\ GnOff /\ ScOff /\ LkOff /\ StOff /\ MvOff /\ ExtOff
    /\ itPc = "loop"
    /\ itI = 0
    /\ itWeights = << >>

\* one iteration of for i in 0..CIE_FINE_SAMPLES
ItStep ==
    /\ itPc = "loop"
    /\ itI < CIE_FINE_SAMPLES
    /\ itWeights' = Append(itWeights, WeightEighths(itI))
    /\ itI' = itI + 1
    /\ UNCHANGED itPc
    /\ UNCHANGED notIt

\* the loop is exhausted and the tables are returned
ItReturn ==
    /\ itPc = "loop"
    /\ itI = CIE_FINE_SAMPLES
    /\ itPc' = "done"
    /\ UNCHANGED <<itI, itWeights>>
    /\ UNCHANGED notIt

NextTables == ItStep \/ ItReturn

SpecTables == InitTables /\ [][NextTables]_vars

(***************************************************************************)
(* RgbSigmoidPolynomial::max_value.  crate::spectrum::LAMBDA_MIN and        *)
(* LAMBDA_MAX are the ends of the valid range [360, 830] nm; 830 is rounded *)
(* to the float precision in use.  A zero coefficient stands for +0.0.      *)
(***************************************************************************)
LAMBDA_MIN == 360
LAMBDA_MAX == 830

\* math::clamp: comparisons with NaN are false, so NaN is returned as it is
Clamp(value, min, max) ==
    IF XLt(value, min) THEN min
    ELSE IF XGt(value, max) THEN max
    ELSE value

\* math::clamp(-0.5 * self.c1 / self.c2, LAMBDA_MIN, LAMBDA_MAX)
MaxValue(poly) ==
    Clamp(XDiv(XMul(FNeg(Round(1, 0 - 1)), poly.c1), poly.c2),
          FInt(LAMBDA_MIN), FInt(LAMBDA_MAX))

\* coefficients in wavelength units, as multiples of 2^-16
C2Samples == {Round(k, 0 - 16) : k \in {0 - 4, 0 - 1, 0, 1, 4}}
C1Samples == {Round(k, 0 - 16) : k \in {0 - 4800, 0 - 1200, 0 - 400, 0, 400, 1200, 4800}}
C0Samples == {FInt(0 - 1), FZero, FInt(2)}

InitMaxValue ==
    /\ GenOff /\ GnOff /\ ScOff /\ LkOff /\ StOff /\ ItOff /\ ExtOff
    /\ mvPc = "call"
    /\ mvPoly \in [c2 : C2Samples, c1 : C1Samples, c0 : C0Samples]
    /\ mvRet = << >>

\* RgbSigmoidPolynomial::new(c2, c1, c0).max_value()
MvMaxValue ==
    /\ mvPc = "call"
    /\ mvRet' = MaxValue(mvPoly)
    /\ mvPc' = "done"
    /\ UNCHANGED mvPoly
    /\ UNCHANGED notMv

NextMaxValue == MvMaxValue

SpecMaxValue == InitMaxValue /\ [][NextMaxValue]_vars

(***************************************************************************)
(* Two gauss_newton calls running concurrently on one shared               *)
(* &RgbToSpecTables.  eval_residual and eval_jacobian read their arguments *)
(* (tables, coefficients, rgb) and write only locals, so the value of each *)
(* is a function of the three arguments; the function is fixed by the      *)
(* tables value and picks among the values of ResidualSet / JacobianSet.    *)
(***************************************************************************)
\* what eval_residual and eval_jacobian see of their arguments
ArgKey(tables, coefficients, rgb) ==
    tables.shift + rgb
        + (IF FLt(coefficients[0], FInt(1)) THEN 0 ELSE 1)
        + (IF FLt(coefficients[2], FInt(100)) THEN 0 ELSE 2)
        + (IF FLt(coefficients[1], FZero) THEN 4 ELSE 0)

\* eval_residual(tables, coefficients, &rgb, &mut residual)
EvalResidual(tables, coefficients, rgb) ==
    CHOOSE v \in ResidualSet :
        Cardinality({w \in ResidualSet : FLt(w[0], v[0])})
            = (ArgKey(tables, coefficients, rgb) + 2) % 4

\* eval_jacobian(tables, coefficients, &rgb)
EvalJacobian(tables, coefficients, rgb) ==
    CHOOSE v \in JacobianSet :
        Cardinality({w \in JacobianSet : FLt(w[2][2], v[2][2])})
            = LET key == ArgKey(tables, coefficients, rgb)
              IN  (3 * key + key \div 4 + 1) % 4

\* faulty variant: the residual is computed from the coefficients another call left
\* in a buffer shared between calls
GaussNewtonBodySharedScratch(tables, rgb, coefficients) ==
    LET residual == EvalResidual(tables, puCalls[1].coes, rgb)
        d == lup_decompose(EvalJacobian(tables, coefficients, rgb), Tol)
    IN  IF ~d.ok
          THEN [ok |-> FALSE, coes |-> coefficients, brk |-> FALSE]
          ELSE [ok |-> TRUE,
                coes |-> Rescale(NewtonUpdate(coefficients,
                                              lup_solve(d.a, d.p, residual))),
                brk |-> BreakTest(ResidualNorm(residual))]

\* the body of `for _ in 0..max_iter`: whether lup_decompose succeeded, the
\* coefficients array afterwards and whether the loop breaks
GaussNewtonBody(tables, rgb, coefficients) ==
    LET residual == EvalResidual(tables, coefficients, rgb)
        d == lup_decompose(EvalJacobian(tables, coefficients, rgb), Tol)
    IN  IF ~d.ok
          THEN [ok |-> FALSE, coes |-> coefficients, brk |-> FALSE]
          ELSE [ok |-> TRUE,
                coes |-> Rescale(NewtonUpdate(coefficients,
                                              lup_solve(d.a, d.p, residual))),
                brk |-> BreakTest(ResidualNorm(residual))]

\* tables values, target colours and the two callers
TablesSamples == {[shift |-> 0], [shift |-> 1]}
RgbSamples == {0, 1}
Callers == {1, 2}

InitPure ==
    /\ GenOff /\ GnOff /\ BaseOff /\ CiOff /\ LuOff /\ RcOff
    /\ puTables \in TablesSamples
    /\ puCalls \in [Callers -> [pc : {"loop"}, rgb : RgbSamples, max_iter : 0..MaxIter,
                                coes0 : InitialCoefficients, coes : InitialCoefficients,
                                iter : {0}, ret : {"-"}]]
    /\ \A c \in Callers : puCalls[c].coes = puCalls[c].coes0

\* faulty variant: the convergence test comes first, and a pass whose residual
\* is below the threshold leaves the loop without the update
PuIterateTestFirst(c) ==
    /\ puCalls[c].pc = "loop"
    /\ puCalls[c].iter < puCalls[c].max_iter
    /\ LET s == GaussNewtonBody(puTables, puCalls[c].rgb, puCalls[c].coes)
       IN  puCalls' = [puCalls EXCEPT
                          ![c].iter = @ + 1,
                          ![c].coes = IF s.ok /\ s.brk THEN @ ELSE s.coes,
                          ![c].pc = IF ~s.ok \/ s.brk THEN "returned" ELSE @,
                          ![c].ret = IF ~s.ok THEN "None"
                                     ELSE IF s.brk THEN "Some" ELSE @]
    /\ UNCHANGED puTables
    /\ UNCHANGED notPu
PuIterate(c) ==
    /\ puCalls[c].pc = "loop"
    /\ puCalls[c].iter < puCalls[c].max_iter
    /\ LET s == GaussNewtonBody(puTables, puCalls[c].rgb, puCalls[c].coes)
       IN  puCalls' = [puCalls EXCEPT
                          ![c].iter = @ + 1,
                          ![c].coes = s.coes,
                          ![c].pc = IF ~s.ok \/ s.brk THEN "returned" ELSE @,
                          ![c].ret = IF ~s.ok THEN "None"
                                     ELSE IF s.brk THEN "Some" ELSE @]
    /\ UNCHANGED puTables
    /\ UNCHANGED notPu

\* call c exhausts 0..max_iter
PuExit(c) ==
    /\ puCalls[c].pc = "loop"
    /\ puCalls[c].iter >= puCalls[c].max_iter
    /\ puCalls' = [puCalls EXCEPT ![c].pc = "returned", ![c].ret = "Some"]
    /\ UNCHANGED puTables
    /\ UNCHANGED notPu

NextPure == \E c \in Callers : PuIterate(c) \/ PuExit(c)

SpecPure == InitPure /\ [][NextPure]_vars

(***************************************************************************)
(* cie_interp, in f64 (WideBits).  The wavelengths of [256, 1024) have a   *)
(* spacing below 1 at this width, as they have in f64.                     *)
(***************************************************************************)
XNeg(a) == IF IsNaN(a) THEN NaN ELSE IF a = PosInf THEN NegInf
           ELSE IF a = NegInf THEN PosInf ELSE FNeg(a)
\* f64 a - b, a * b, a + b with the special values
WSub(a, b) == IF IsFinite(a) /\ IsFinite(b) THEN SubTo(WideBits, a, b) ELSE XSub(a, b)
WMul(a, b) == IF IsFinite(a) /\ IsFinite(b) THEN MulTo(WideBits, a, b) ELSE XMul(a, b)
WAdd(a, b) == IF IsFinite(a) /\ IsFinite(b) THEN AddTo(WideBits, a, b)
              ELSE XSub(a, XNeg(b))
\* `x < 0.0` and `x as usize` on an f64
WNegative(x) == x = NegInf \/ (IsFinite(x) /\ x[1] < 0)
WCastUsize(x) ==
    IF IsNaN(x) \/ WNegative(x) THEN 0
    ELSE IF x = PosInf THEN UsizeMax
    ELSE IF x[2] >= 0 THEN (IF x[2] + WideBits > 30 THEN UsizeMax ELSE x[1] * 2^(x[2]))
    ELSE IF 0 - x[2] > 30 THEN 0
    ELSE x[1] \div 2^(0 - x[2])

\* x -= CIE_LAMBDA_MIN; x *= ((CIE_SAMPLES - 1) as f64) / (CIE_LAMBDA_MAX - CIE_LAMBDA_MIN);
CieRescale(x) ==
    WMul(WSub(x, WInt(CIE_LAMBDA_MIN)),
         DivTo(WideBits, WInt(CIE_SAMPLES - 1),
               SubTo(WideBits, WInt(CIE_LAMBDA_MAX), WInt(CIE_LAMBDA_MIN))))

\* faulty variant: the upper arm compares with the last index
CieOffsetLateUpperArm(x) ==
    IF WNegative(x) THEN 0
    ELSE IF WCastUsize(x) > CIE_SAMPLES - 1 THEN CIE_SAMPLES - 2
    ELSE WCastUsize(x)

\* let offset = if x < 0.0 { 0 } else if x as usize > CIE_SAMPLES - 2
\*     { CIE_SAMPLES - 2 } else { x as usize };
CieOffset(x) ==
    IF WNegative(x) THEN 0
    ELSE IF WCastUsize(x) > CIE_SAMPLES - 2 THEN CIE_SAMPLES - 2
    ELSE WCastUsize(x)

\* sampled curves: a ramp, a peak and a curve with a step
CieCurves ==
    {[i \in 0..(CIE_SAMPLES - 1) |-> WInt(i)],
     [i \in 0..(CIE_SAMPLES - 1) |-> RoundTo(WideBits, 47 - Abs(47 - i), 0 - 5)],
     [i \in 0..(CIE_SAMPLES - 1) |-> IF i < 2 \/ i > 92 THEN WInt(3) ELSE WInt(1)]}

\* wavelengths: every f64 of [256, 1024), values around and far from the
\* range, and the special values
CieWavelengths ==
    {<<m, e>> : m \in (2^(WideBits - 1))..(2^WideBits - 1),
                e \in {9 - WideBits, 10 - WideBits}}
    \cup {FZero, WInt(0 - 100), WInt(100), WInt(250), WInt(1024), WInt(5000),
          RoundTo(WideBits, 1, 40), RoundTo(WideBits, 0 - 1, 40),
          RoundTo(WideBits, 1, 0 - 40), NaN, PosInf, NegInf}

InitCie ==
    /\ GenOff /\ GnOff /\ BaseOff /\ PuOff /\ LuOff /\ RcOff
    /\ ciPc = "entry"
    /\ ciData \in CieCurves
    /\ ciLambda \in CieWavelengths
    /\ ciX = ciLambda
    /\ ciOffset = 0
    /\ ciWeight = << >>
    /\ ciReads = {}
    /\ ciRet = << >>

\* the two in-place updates of x
CiRescale ==
    /\ ciPc = "entry"
    /\ ciX' = CieRescale(ciX)
    /\ ciPc' = "index"
    /\ UNCHANGED <<ciData, ciLambda, ciOffset, ciWeight, ciReads, ciRet>>
    /\ UNCHANGED notCi

\* offset, weight and the two indexed reads; an index past the array panics
CiInterpolate ==
    /\ ciPc = "index"
    /\ LET offset == CieOffset(ciX)
           weight == WSub(ciX, WInt(offset))
       IN  /\ ciOffset' = offset
           /\ ciWeight' = weight
           /\ IF offset + 1 > CIE_SAMPLES - 1
                THEN /\ ciPc' = "panicked"
                     /\ ciReads' = {offset}
                     /\ UNCHANGED ciRet
                ELSE /\ ciPc' = "returned"
                     /\ ciReads' = {offset, offset + 1}
                     /\ ciRet' = WAdd(WMul(WSub(WInt(1), weight), ciData[offset]),
                                      WMul(weight, ciData[offset + 1]))
    /\ UNCHANGED <<ciData, ciLambda, ciX>>
    /\ UNCHANGED notCi

NextCie == CiRescale \/ CiInterpolate

SpecCie == InitCie /\ [][NextCie]_vars

(***************************************************************************)
(* lup_decompose followed by lup_solve in exact arithmetic.  A number is a *)
(* fraction <<n, d>> in lowest terms with d > 0; <<0, 0>> is the outcome   *)
(* of a division by zero (NaN or an infinity in f64) and of every          *)
(* operation on such an outcome.  lup_decompose divides by the column's    *)
(* largest magnitude only, so from a numeric matrix its one division by    *)
(* zero is 0/0 = NaN, which every comparison answers with false.           *)
(***************************************************************************)
RECURSIVE Gcd(_, _)
Gcd(x, y) == IF y = 0 THEN x ELSE Gcd(y, x % y)

QUndef == <<0, 0>>
Q(n, d) ==
    IF d = 0 THEN QUndef
    ELSE LET g == Gcd(Abs(n), Abs(d))
         IN  <<(Sign(d) * n) \div g, Abs(d) \div g>>
QSub(x, y) == IF x[2] = 0 \/ y[2] = 0 THEN QUndef
              ELSE Q(x[1] * y[2] - y[1] * x[2], x[2] * y[2])
QMul(x, y) == IF x[2] = 0 \/ y[2] = 0 THEN QUndef ELSE Q(x[1] * y[1], x[2] * y[2])
QDiv(x, y) == IF x[2] = 0 \/ y[2] = 0 THEN QUndef ELSE Q(x[1] * y[2], x[2] * y[1])
QAbs(x) == <<Abs(x[1]), x[2]>>
\* `x < y`; false when either side is undefined
QLt(x, y) == x[2] # 0 /\ y[2] # 0 /\ x[1] * y[2] < y[1] * x[2]

\* the search for max_a and max_i in column i, from row k on
RECURSIVE ExactPivotSearch(_, _, _, _)
ExactPivotSearch(a, i, k, best) ==
    IF k >= LupN THEN best
    ELSE IF QLt(best[1], QAbs(a[k][i]))
        THEN ExactPivotSearch(a, i, k + 1, <<QAbs(a[k][i]), k>>)
        ELSE ExactPivotSearch(a, i, k + 1, best)

\* for j in (i + 1)..N { a[j][i] /= a[i][i];
\*                       for k in (i + 1)..N { a[j][k] -= a[j][i] * a[i][k]; } }
ExactEliminate(a, i) ==
    [j \in 0..(LupN - 1) |->
        [k \in 0..(LupN - 1) |->
            IF j <= i \/ k < i THEN a[j][k]
            ELSE IF k = i THEN QDiv(a[j][i], a[i][i])
            ELSE QSub(a[j][k], QMul(QDiv(a[j][i], a[i][i]), a[i][k]))]]

\* faulty variant: a pivot equal to tol is rejected as well
ExactPivotTooSmallOrEqual(max_a, tol) == ~QLt(tol, max_a)
\* `if max_a < tol { return None; }`
ExactPivotTooSmall(max_a, tol) == QLt(max_a, tol)

\* sum of a[i][k] * x[k] for k in lo..hi
RECURSIVE ExactDot(_, _, _, _, _)
ExactDot(a, x, i, lo, hi) ==
    IF lo >= hi THEN Q(0, 1)
    ELSE QSub(ExactDot(a, x, i, lo, hi - 1),
              QMul(Q(0 - 1, 1), QMul(a[i][hi - 1], x[hi - 1])))

\* for i in 0..N { x[i] = b[p[i]]; for k in 0..i { x[i] -= a[i][k] * x[k]; } }
RECURSIVE ExactForward(_, _, _, _, _)
ExactForward(a, p, b, x, i) ==
    IF i >= LupN THEN x
    ELSE ExactForward(a, p, b,
                      [x EXCEPT ![i] = QSub(b[p[i]], ExactDot(a, x, i, 0, i))], i + 1)

\* faulty variant: the back substitution leaves out the division by the diagonal
RECURSIVE ExactBackNoDivision(_, _, _)
ExactBackNoDivision(a, x, i) ==
    IF i < 0 THEN x
    ELSE ExactBackNoDivision(a,
            [x EXCEPT ![i] = QSub(x[i], ExactDot(a, x, i, i + 1, LupN))], i - 1)

\* for i in (0..N).rev() { for k in (i + 1)..N { x[i] -= a[i][k] * x[k]; }
\*                         x[i] /= a[i][i]; }
RECURSIVE ExactBack(_, _, _)
ExactBack(a, x, i) ==
    IF i < 0 THEN x
    ELSE ExactBack(a,
            [x EXCEPT ![i] = QDiv(QSub(x[i], ExactDot(a, x, i, i + 1, LupN)), a[i][i])],
            i - 1)

\* matrices with entries -1, 0 and 2, two tolerances around the entries and
\* the tolerance 0, one right-hand side
LupEntries == {Q(0 - 1, 1), Q(0, 1), Q(2, 1)}
LupMatrices == [0..(LupN - 1) -> [0..(LupN - 1) -> LupEntries]]
LupTolerances == {Q(0, 1), Q(1, 2), Q(2, 1)}
LupRightHandSides == {[n \in 0..(LupN - 1) |-> Q(2 * n - 1, 1)]}

InitLup ==
    /\ GenOff /\ GnOff /\ BaseOff /\ PuOff /\ CiOff /\ RcOff
    /\ luPc = "column"
    /\ luTol \in LupTolerances
    /\ luA0 \in LupMatrices
    /\ luA = luA0
    /\ luB \in LupRightHandSides
    /\ luI = 0
    /\ luP = [n \in 0..LupN |-> n]
    /\ luMax = << >>
    /\ luX = << >>

\* one pass through the body of `for i in 0..N` of lup_decompose
LuColumn ==
    /\ luPc = "column"
    /\ luI < LupN
    /\ LET best == ExactPivotSearch(luA, luI, luI, <<Q(0, 1), luI>>)
           max_i == best[2]
       IN  /\ luMax' = Append(luMax, best[1])
           /\ IF ExactPivotTooSmall(best[1], luTol)
                THEN /\ luPc' = "failed"
                     /\ UNCHANGED <<luA, luP, luI>>
                ELSE /\ luA' = ExactEliminate(IF max_i # luI THEN Swap(luA, luI, max_i)
                                              ELSE luA, luI)
                     /\ luP' = IF max_i # luI
                                 THEN [Swap(luP, luI, max_i) EXCEPT ![LupN] = @ + 1]
                                 ELSE luP
                     /\ luI' = luI + 1
                     /\ UNCHANGED luPc
    /\ UNCHANGED <<luTol, luA0, luB, luX>>
    /\ UNCHANGED notLu

\* lup_decompose returned Some(()); lup_solve(&a, &p, &b)
LuSolve ==
    /\ luPc = "column"
    /\ luI = LupN
    /\ luX' = ExactBack(luA, ExactForward(luA, luP, luB,
                                          [n \in 0..(LupN - 1) |-> Q(0, 1)], 0),
                        LupN - 1)
    /\ luPc' = "solved"
    /\ UNCHANGED <<luTol, luA0, luB, luI, luA, luP, luMax>>
    /\ UNCHANGED notLu

NextLup == LuColumn \/ LuSolve

SpecLup == InitLup /\ [][NextLup]_vars

(***************************************************************************)
(* RgbColor: one value of the type and the safe public operations on it.   *)
(* Components are f32 values with NaN and the infinities.                  *)
(***************************************************************************)
XAdd(a, b) == XSub(a, XNeg(b))

\* f32::clamp panics unless min <= max (so also when either is NaN)
ClampPanics(min, max) == ~(XLt(min, max) \/ XEq(min, max))
\* f32::clamp(self, min, max): NaN stays NaN
F32Clamp(x, min, max) ==
    IF IsNaN(x) THEN x
    ELSE IF XLt(x, min) THEN min
    ELSE IF XGt(x, max) THEN max
    ELSE x

RgbTriple(r, g, b) == [j \in 0..2 |-> IF j = 0 THEN r ELSE IF j = 1 THEN g ELSE b]
\* RgbColor::new
RgbNew(r, g, b) ==
    RgbTriple(F32Clamp(r, FZero, FInt(1)), F32Clamp(g, FZero, FInt(1)),
              F32Clamp(b, FZero, FInt(1)))

\* scalars handed to the operations, and colours built with RgbColor::new
RcScalars == {FZero, FInt(1), FInt(0 - 1), NaN, PosInf}
RcFinite == {FZero, Round(1, 0 - 1), FInt(1)}
RcColours == {RgbNew(r, g, b) : r \in RcFinite, g \in RcFinite, b \in RcFinite}

\* the sums index_mut writes are followed up to this magnitude
RcWithinCap(v) == IsFinite(v) => ~FGt(FAbs(v), FInt(MaxComponent))

InitRgb ==
    /\ GenOff /\ GnOff /\ BaseOff /\ PuOff /\ CiOff /\ LuOff
    /\ rcPc = "live"
    /\ rcColor = RgbNew(FZero, FZero, FZero)

\* let c = RgbColor::new(r, g, b)
RcNew ==
    /\ rcPc = "live"
    /\ \E r \in RcScalars, g \in RcScalars, b \in RcFinite : rcColor' = RgbNew(r, g, b)
    /\ UNCHANGED rcPc
    /\ UNCHANGED notRc

\* c = c.clamp(min, max)
RcClamp ==
    /\ rcPc = "live"
    /\ \E min \in RcScalars, max \in RcScalars :
         LET lo == F32Clamp(min, FZero, FInt(1))
         IN  IF ClampPanics(lo, FInt(1))
               THEN rcPc' = "panicked" /\ UNCHANGED rcColor
               ELSE LET hi == F32Clamp(max, lo, FInt(1))
                    IN  IF ClampPanics(lo, hi)
                          THEN rcPc' = "panicked" /\ UNCHANGED rcColor
                          ELSE /\ rcColor' = [j \in 0..2 |-> F32Clamp(rcColor[j], lo, hi)]
                               /\ UNCHANGED rcPc
    /\ UNCHANGED notRc

\* c = c + rhs
RcAdd ==
    /\ rcPc = "live"
    /\ \E rhs \in RcColours :
         rcColor' = RgbNew(XAdd(rcColor[0], rhs[0]), XAdd(rcColor[1], rhs[1]),
                           XAdd(rcColor[2], rhs[2]))
    /\ UNCHANGED rcPc
    /\ UNCHANGED notRc

\* c += rhs
RcAddAssign ==
    /\ rcPc = "live"
    /\ \E rhs \in RcColours :
         rcColor' = [j \in 0..2 |-> F32Clamp(XAdd(rcColor[j], rhs[j]), FZero, FInt(1))]
    /\ UNCHANGED rcPc
    /\ UNCHANGED notRc

\* c = c - rhs
RcSub ==
    /\ rcPc = "live"
    /\ \E rhs \in RcColours :
         rcColor' = RgbNew(XSub(rcColor[0], rhs[0]), XSub(rcColor[1], rhs[1]),
                           XSub(rcColor[2], rhs[2]))
    /\ UNCHANGED rcPc
    /\ UNCHANGED notRc

\* c -= rhs
RcSubAssign ==
    /\ rcPc = "live"
    /\ \E rhs \in RcColours :
         rcColor' = [j \in 0..2 |-> F32Clamp(XSub(rcColor[j], rhs[j]), FZero, FInt(1))]
    /\ UNCHANGED rcPc
    /\ UNCHANGED notRc

\* RgbColor * f32
RgbMul(c, rhs) == RgbNew(XMul(c[0], rhs), XMul(c[1], rhs), XMul(c[2], rhs))
\* mul_assign
RgbMulAssign(c, rhs) == [j \in 0..2 |-> F32Clamp(XMul(c[j], rhs), FZero, FInt(1))]

\* c = c * rhs
RcMul ==
    /\ rcPc = "live"
    /\ \E rhs \in RcScalars : rcColor' = RgbMul(rcColor, rhs)
    /\ UNCHANGED rcPc
    /\ UNCHANGED notRc

\* c *= rhs
RcMulAssign ==
    /\ rcPc = "live"
    /\ \E rhs \in RcScalars : rcColor' = RgbMulAssign(rcColor, rhs)
    /\ UNCHANGED rcPc
    /\ UNCHANGED notRc

\* c = c / rhs
RcDiv ==
    /\ rcPc = "live"
    /\ \E rhs \in RcScalars :
         rcColor' = IF XEq(rhs, FZero) THEN RgbNew(FZero, FZero, FZero)
                    ELSE RgbMul(rcColor, XDiv(FInt(1), rhs))
    /\ UNCHANGED rcPc
    /\ UNCHANGED notRc

\* c /= rhs
RcDivAssign ==
    /\ rcPc = "live"
    /\ \E rhs \in RcScalars : rcColor' = RgbMulAssign(rcColor, XDiv(FInt(1), rhs))
    /\ UNCHANGED rcPc
    /\ UNCHANGED notRc

\* c[index] = v and c[index] += v, through the &mut f32 index_mut returns
RcIndexMut ==
    /\ rcPc = "live"
    /\ \E index \in 0..3, v \in RcScalars :
         IF index > 2
           THEN rcPc' = "panicked" /\ UNCHANGED rcColor
           ELSE /\ \/ rcColor' = [rcColor EXCEPT ![index] = v]
                   \/ /\ RcWithinCap(XAdd(rcColor[index], v))
                      /\ rcColor' = [rcColor EXCEPT ![index] = XAdd(@, v)]
                /\ UNCHANGED rcPc
    /\ UNCHANGED notRc

NextRgb ==
    \/ RcNew \/ RcClamp \/ RcAdd \/ RcAddAssign \/ RcSub \/ RcSubAssign
    \/ RcMul \/ RcMulAssign \/ RcDiv \/ RcDivAssign \/ RcIndexMut

SpecRgb == InitRgb /\ [][NextRgb]_vars

(***************************************************************************)
(* Properties of the generator.                                            *)
(***************************************************************************)
\* elements 3*idx+c, idx = ((l*res+k)*res+j)*res+i, of the row of worker (l, j)
RowElements(id, r) ==
    {3 * (((id[1] * r + k) * r + id[2]) * r + i) + c :
        k \in 0..(r - 1), i \in 0..(r - 1), c \in 0..2}

\* C1: no two workers ever store to the same element of the shared buffer:
\* every store of worker (l, j) goes to an element 3*idx+c of its own row,
\* no element has stores from two workers, and the rows of different workers
\* are pairwise disjoint.
C1_DisjointWrites ==
    /\ \A id \in WorkerIds(res) :
          LET row == RowElements(id, res)
          IN  \A p \in DOMAIN writers : \A n \in 1..Len(writers[p]) :
                  writers[p][n] = id => (p \in row /\ writers[p][1] = id)
    \* the rows depend on res only: compared once, on entry
    /\ (mainPc = "spawn" /\ mainL = 0 /\ mainJ = 0) =>
          \A a \in WorkerIds(res) : \A b \in WorkerIds(res) :
              a # b => RowElements(a, res) \cap RowElements(b, res) = {}

\* two workers of the same channel are alive and both have stored
C1_Witness ==
    \E a \in DOMAIN workers : \E b \in DOMAIN workers :
        /\ a # b
        /\ a[1] = b[1]
        /\ Running(workers[a]) /\ Running(workers[b])
        /\ \E p \in DOMAIN writers : writers[p] = <<a>>
        /\ \E q \in DOMAIN writers : writers[q] = <<b>>

\* C2: whatever the interleaving, the returned table is the one the loops
\* produce when run by a single thread.
C2_SameAsSequential ==
    mainPc = "returned" => (RowRun(res).ok /\ out = RowRun(res).out)

\* the generator has returned a table whose last cell holds a fit
C2_Witness ==
    /\ mainPc = "returned"
    /\ out[OutLen(res) - 1] # Placeholder

\* C3: at the return every element of the buffer has been stored exactly
\* once; for every resolution the forward and reverse k ranges together
\* cover 0..res-1 once each (the reverse range being empty below 5), and idx
\* maps the cells one-to-one onto 0..3*res^3-1.
C3_EveryCellOnce ==
    mainPc = "returned" =>
        /\ \A p \in DOMAIN writers : Len(writers[p]) = 1
        /\ \A r \in 2..MaxRowRes :
              /\ Len(ForwardKs(r)) + Len(ReverseKs(r)) = r
              /\ {ForwardKs(r)[n] : n \in DOMAIN ForwardKs(r)}
                    \cup {ReverseKs(r)[n] : n \in DOMAIN ReverseKs(r)} = 0..(r - 1)
              /\ (r < 5 => ReverseKs(r) = << >>)
              /\ LET cells == (0..2) \X (0..(r - 1)) \X (0..(r - 1)) \X (0..(r - 1))
                     image == {Idx(c[1], c[2], c[3], c[4], r) : c \in cells}
                 IN  /\ image = 0..(3 * r * r * r - 1)
                     /\ Cardinality(image) = Cardinality(cells)

\* the generator has returned and the buffer is full
C3_Witness ==
    /\ mainPc = "returned"
    /\ \A p \in DOMAIN out : out[p] # Placeholder

\* the k expected at position m (from 0) of a column's sweep
SweepK(m, r) == IF m < r - (r \div 5) THEN (r \div 5) + m ELSE (r \div 5) - 1 - (m - (r - (r \div 5)))

\* C5: within each column (l, j, i) the fitter is called for k = res/5 ..
\* res-1 upwards and then for k = res/5-1 .. 0 downwards; the first call of
\* either sweep starts from zero coefficients and every other call starts
\* from the coefficients the call before it produced.
C5_SweepOrder ==
    \A id \in DOMAIN fitlog : \A n \in 1..Len(fitlog[id]) :
        LET call == fitlog[id][n]
            m == (n - 1) % res
        IN  /\ call[2] = (n - 1) \div res
            /\ call[1] = SweepK(m, res)
            /\ IF m = 0 \/ m = res - (res \div 5)
                 THEN call[3] = ZeroCoes
                 ELSE LET prev == fitlog[id][n - 1]
                      IN  call[3] = Append(prev[3],
                                           CellRgb(id[1], prev[1], id[2], prev[2], res))

\* a closure has swept its first column in both directions, the reverse
\* sweep having more than one call, and has started its second column
C5_Witness ==
    \E id \in DOMAIN workers :
        /\ res \div 5 >= 2
        /\ Len(fitlog[id]) = res + 1

\* C8: once a fit has reported a singular Jacobian the generator never
\* returns a table, and the caller panics when it joins a panicked worker.
C8_NoTableAfterSingular ==
    /\ (\E id \in DOMAIN workers : workers[id].st = "panicked") => mainPc # "returned"
    /\ mainPc = "panicked" => workers[<<mainL, mainJ>>].st = "panicked"

\* the caller has panicked on the handle of a worker whose fit failed
C8_Witness ==
    /\ mainPc = "panicked"
    /\ workers[<<mainL, mainJ>>].st = "panicked"
    /\ holder = NoWorker /\ ~poisoned

\* the integer colour of cell (l, k, j, i)
CellColour(l, k, j, i, r) == [c \in 0..2 |-> LimbInt(CellRgb(l, k, j, i, r)[c])]
\* the target colour of the fit stored in a table element
FittedFor(v) == IF v[2] = << >> THEN NoRgb ELSE v[2][Len(v[2])]

C6_NoneOnlyWhenSingular ==
    /\ gnRet = "None" => (gnSingular /\ ~gnLast.ok)
    /\ gnSingular => gnRet = "None"
    /\ (gnPc = "returned" /\ ~gnSingular) => gnRet = "Some"

\* all max_iter iterations were used, none converged, and the call returned Some
C6_Witness ==
    /\ gnRet = "Some"
    /\ gnMaxIter >= 2
    /\ gnIter = gnMaxIter
    /\ ~gnBelow

\* C7: at most max_iter iterations are entered; with max_iter = 0 none is
\* and the coefficients are returned unchanged; an iteration that computed
\* r < 1e-6 is the last one.
C7_IterationBound ==
    /\ gnIter <= gnMaxIter
    /\ (gnPc = "returned" /\ gnMaxIter = 0) => (gnIter = 0 /\ gnCoes = gnCoes0 /\ gnRet = "Some")
    /\ gnBelow => (gnPc = "returned" /\ gnLast.ok /\ FLt(gnLast.r, Threshold))

\* the loop was left early, after an iteration below the threshold
C7_Witness ==
    /\ gnBelow
    /\ gnPc = "returned"
    /\ gnIter >= 1
    /\ gnIter < gnMaxIter

\* the rescale step as the source states it, applied to the coefficients
\* after the update of the last iteration
C9_RescaleApplied ==
    LET pre == gnLast.pre
        largest == FMax(FMax(pre[0], pre[1]), pre[2])
    IN  IF FGt(largest, CoefficientCap)
          THEN \A j \in 0..2 : gnCoes[j] = FMul(pre[j], FDiv(CoefficientCap, largest))
          ELSE gnCoes = pre

\* C9 as stated: after every completed iteration the rescale has been
\* applied and no coefficient is greater than 200.
C9_NeverAbove200 ==
    (gnIter >= 1 /\ gnLast.ok) =>
        /\ C9_RescaleApplied
        /\ \A j \in 0..2 : ~FGt(gnCoes[j], CoefficientCap)

\* the next float above 200.0
CapSuccessor == <<CoefficientCap[1] + 1, CoefficientCap[2]>>

\* C9 amended: after every completed iteration the rescale has been applied
\* and no coefficient is greater than the next float above 200 (the product
\* max * (200 / max) is rounded twice and may land one unit in the last
\* place above 200).
C9_AtMostOneUlpAbove200 ==
    (gnIter >= 1 /\ gnLast.ok) =>
        /\ C9_RescaleApplied
        /\ \A j \in 0..2 : ~FGt(gnCoes[j], CapSuccessor)

\* an iteration whose update left a coefficient above 200 has been rescaled
C9_Witness ==
    /\ gnIter >= 1
    /\ gnLast.ok
    /\ FGt(FMax(FMax(gnLast.pre[0], gnLast.pre[1]), gnLast.pre[2]), CoefficientCap)
    /\ gnCoes # gnLast.pre

\* C10: when no fit fails the generator terminates under fair scheduling,
\* with every closure finished after res*res fits; the mutex is held only
\* by a closure that is at its three stores.
C10_Terminates ==
    /\ [](holder # NoWorker => workers[holder].st = "store")
    /\ <>(/\ mainPc = "returned"
          /\ \A id \in DOMAIN workers :
                workers[id].st = "finished" /\ Len(fitlog[id]) = res * res)

\* a closure waits for the mutex while another one holds it
C10_Witness ==
    /\ singular = NoRgb
    /\ holder # NoWorker
    /\ \E id \in DOMAIN workers : id # holder /\ workers[id].st = "lock"

\* elements of the buffer that belong to channel l
ChannelElements(l, r) == (3 * l * r * r * r)..(3 * (l + 1) * r * r * r - 1)

\* C11: a closure of a channel exists only once every closure of the
\* channels before it has finished and been joined (the caller is past
\* them); at most res closures are alive at a time; and an element of a
\* channel is stored only when every element of the channels before it has
\* had its store and every closure of those channels has finished.
C11_ChannelBarrier ==
    /\ \A id \in DOMAIN workers :
          /\ id[1] > mainL => workers[id].st = "unspawned"
          /\ id[1] < mainL => workers[id].st = "finished"
          /\ (workers[id].st # "unspawned" /\ mainPc = "spawn") =>
                (id[1] < mainL \/ (id[1] = mainL /\ id[2] < mainJ))
    /\ Cardinality({id \in DOMAIN workers : Running(workers[id])}) <= res
    /\ \A l \in 1..(Channels - 1) :
          (\E q \in ChannelElements(l, res) : writers[q] # << >>) =>
              /\ \A p \in ChannelElements(l - 1, res) : Len(writers[p]) = 1
              /\ \A id \in DOMAIN workers : id[1] < l => workers[id].st = "finished"

\* all closures of the second channel are alive, one of them has stored,
\* and the first channel is complete
C11_Witness ==
    /\ \A id \in DOMAIN workers : id[1] = 1 => Running(workers[id])
    /\ \E q \in ChannelElements(1, res) : writers[q] # << >>
    /\ \A p \in ChannelElements(0, res) : writers[p] # << >>

(***************************************************************************)
(* Properties of the runtime lookup.                                       *)
(***************************************************************************)
\* the vertex a table-path result is read from when all three weights are
\* 0 or 1 (lerp(0, a, b) = a and lerp(1, a, b) = b), else no vertex
SelectedVertex ==
    LET w(t) == IF t = FZero THEN 0 ELSE 1
    IN  IF lkRet.path = "table" /\ {lkRet.dx, lkRet.dy, lkRet.dz} \subseteq {FZero, FInt(1)}
          THEN <<lkIdx.max_idx, lkZi + w(lkRet.dz), lkIdx.yi + w(lkRet.dy),
                 lkIdx.xi + w(lkRet.dx)>>
          ELSE << >>

\* the original statement of C12: at every vertex the stored entry itself
\* comes back
C12_ExactAtEveryVertex ==
    (lkPc = "returned" /\ lkVertex # << >>) => SelectedVertex = lkVertex

\* x is a finite float within 5 * 2^-PrecBits * n of the integer n
NearInt(x, n) ==
    /\ IsFinite(x)
    /\ IF x[2] >= 0
         THEN x[2] <= 8 /\ Abs(x[1] * 2^(x[2]) - n) * 2^PrecBits <= 5 * n
         ELSE /\ 0 - x[2] <= 16
              /\ Abs(x[1] - n * 2^(0 - x[2])) * 2^PrecBits <= 5 * n * 2^(0 - x[2])

\* C12: on the colour rebuilt from a grid vertex (l, k, j, i) the lookup
\* returns the closed form, not the table entry, when the colour is
\* achromatic (k = 0, or i = j = RES-1); otherwise it takes the table path
\* with zi = k - 1 and dz = 1, max_idx is the first index of a vertex with
\* the same colour (l itself when i < RES-1 and j < RES-1), and x and y are
\* within a relative 5 * 2^-PrecBits of that vertex's i and j, so that the
\* result is the stored entry up to the rounding of x and y.
C12_VertexLookup ==
    (lkPc = "returned" /\ lkVertex # << >>) =>
        LET v == lkVertex
            \* the grid factor of each channel of the vertex colour
            g == [c \in 0..2 |-> IF c = v[1] THEN lkRes - 1
                                 ELSE IF c = (v[1] + 1) % 3 THEN v[4] ELSE v[3]]
        IN  IF v[2] = 0 \/ (v[3] = lkRes - 1 /\ v[4] = lkRes - 1)
              THEN lkRet.path = "closed"
              ELSE LET m == lkIdx.max_idx
                       u == <<m, v[2], g[(m + 2) % 3], g[(m + 1) % 3]>>
                   IN  /\ lkRet.path = "table"
                       /\ lkZi = v[2] - 1
                       /\ lkRet.dz = FInt(1)
                       /\ ((v[3] < lkRes - 1 /\ v[4] < lkRes - 1) => m = v[1])
                       /\ g[m] = lkRes - 1
                       /\ VertexRgb(u[1], u[2], u[3], u[4], lkRes) = lkRgb
                       /\ NearInt(lkIdx.y, u[3])
                       /\ NearInt(lkIdx.x, u[4])

\* the lookup has returned from the table path on a vertex colour and the
\* rounding of x has left a weight that is neither 0 nor 1
C12_Witness ==
    /\ lkPc = "returned"
    /\ lkVertex # << >>
    /\ lkRet.path = "table"
    /\ lkRet.dx \notin {FZero, FInt(1)}

\* C13: a colour with r = g = b returns (c2, c1, c0) = (0, 0, (r - 0.5) /
\* sqrt(r * (1 - r))) and at no point reads z_node or coefficients (c0 is
\* -inf at r = 0, +inf at r = 1, NaN outside [0, 1], and has the sign of
\* r - 0.5 otherwise); any other colour, one with a NaN channel included,
\* takes the table path.
C13_AchromaticShortcut ==
    /\ AllEqual(lkRgb) =>
          /\ lkPc \in {"entry", "returned"}
          /\ lkReads = {}
          /\ lkPc = "returned" =>
                LET r == lkRgb[0]
                    c0 == lkRet.c0
                IN  /\ lkRet.path = "closed"
                    /\ lkRet.c2 = FZero /\ lkRet.c1 = FZero
                    /\ c0 = XDiv(XSub(r, Round(1, 0 - 1)), XSqrt(XMul(r, XSub(FInt(1), r))))
                    /\ r = FZero => c0 = NegInf
                    /\ r = FInt(1) => c0 = PosInf
                    /\ (XLt(r, FZero) \/ XGt(r, FInt(1))) => IsNaN(c0)
                    /\ (XGt(r, FZero) /\ XLt(r, FInt(1))) =>
                          /\ IsFinite(c0)
                          /\ XGt(r, Round(1, 0 - 1)) => c0[1] > 0
                          /\ XLt(r, Round(1, 0 - 1)) => c0[1] < 0
    /\ (lkPc = "returned" /\ ~AllEqual(lkRgb)) => lkRet.path = "table"
    /\ (lkPc \in {"search", "interp", "panicked"}) => ~AllEqual(lkRgb)

\* the early return has produced a finite non-zero c0
C13_Witness ==
    /\ lkPc = "returned"
    /\ AllEqual(lkRgb)
    /\ lkRet.path = "closed"
    /\ IsFinite(lkRet.c0) /\ lkRet.c0 # FZero

\* z_node[0] = 0, z_node[RES-1] = 1 and z_node strictly increasing
ProperNodes(zn, r) ==
    /\ zn[0] = FZero
    /\ zn[r - 1] = FInt(1)
    /\ \A n \in 0..(r - 2) : XLt(zn[n], zn[n + 1])

\* C14: when z = rgb[max_idx] lies in (0, 1] and z_node increases strictly
\* from 0 to 1, the zi that find_interval returns satisfies z_node[zi] < z
\* <= z_node[zi + 1] and the weight dz lies in (0, 1]; find_interval returns
\* c - 1 for every predicate that is true exactly below c, 1 <= c <= sz - 1.
C14_Brackets ==
    /\ (/\ lkPc \in {"interp", "returned"}
        /\ lkIdx # << >>
        /\ XGt(lkIdx.z, FZero) /\ ~XGt(lkIdx.z, FInt(1))
        /\ ProperNodes(z_node_f32(lkRes), lkRes)) =>
          LET zn == z_node_f32(lkRes)
              z == lkIdx.z
          IN  /\ lkZi \in 0..(lkRes - 2)
              /\ XLt(zn[lkZi], z)
              /\ ~XLt(zn[lkZi + 1], z) /\ ~IsNaN(z)
              /\ lkZi = find_interval(lkRes, [n \in 0..(lkRes - 1) |-> XLt(zn[n], z)])
              /\ lkPc = "returned" =>
                    (XGt(lkRet.dz, FZero) /\ ~XGt(lkRet.dz, FInt(1)) /\ IsFinite(lkRet.dz))
    /\ lkPc = "entry" =>
          \A sz \in 2..(2 * MaxLookupRes) : \A c \in 1..(sz - 1) :
              find_interval(sz, [n \in 0..(sz - 1) |-> n < c]) = c - 1

\* the search has bracketed a z strictly inside an interval above the first
C14_Witness ==
    /\ lkPc = "returned"
    /\ lkRet.path = "table"
    /\ XGt(lkIdx.z, FZero) /\ XLt(lkIdx.z, FInt(1))
    /\ lkZi >= 1
    /\ XLt(lkRet.dz, FInt(1))

\* C15: whatever the input colour (channels outside [0, 1], infinite or NaN
\* included) no read of color_to_polynomial leaves its array: xi and yi are
\* at most RES-2, zi is in 0..RES-2, every logged read of z_node and of
\* coefficients is in bounds and the call never panics; find_interval(sz, ..)
\* returns a value in 0..sz-2 for every predicate.
C15_ReadsInBounds ==
    /\ lkPc # "panicked"
    /\ \A rd \in lkReads : InBounds(rd, lkRes)
    /\ lkIdx # << >> =>
          /\ lkIdx.xi \in 0..(lkRes - 2)
          /\ lkIdx.yi \in 0..(lkRes - 2)
          /\ lkIdx.max_idx \in 0..2
    /\ lkZi \in 0..(lkRes - 2)
    /\ (lkPc = "returned" /\ lkRet.path = "table") =>
          lkReads = InterpolationReads(lkIdx, lkZi)
                      \cup {rd \in lkReads : rd[1] = "z_node"}
    /\ (lkPc = "entry" /\ lkVertex = <<0, 0, 0, 0>>) =>
          \A sz \in 2..(2 * MaxLookupRes - 4) : \A pred \in [0..(sz - 1) -> BOOLEAN] :
              find_interval(sz, pred) \in 0..(sz - 2)

\* the table path has returned on a colour whose x had to be cut back to
\* RES-2 and that has a channel outside [0, 1]
C15_Witness ==
    /\ lkPc = "returned"
    /\ lkRet.path = "table"
    /\ CastUsize(lkIdx.x) > lkRes - 2
    /\ \E c \in 0..2 : ~IsFinite(lkRgb[c]) \/ XGt(lkRgb[c], FInt(1)) \/ XLt(lkRgb[c], FZero)
    /\ Cardinality(lkReads) >= 10

\* every channel is a number in [0, 1]
InUnitCube(rgb) ==
    \A c \in 0..2 : IsFinite(rgb[c]) /\ ~XLt(rgb[c], FZero) /\ ~XGt(rgb[c], FInt(1))

\* a finite and lo <= a <= hi
Between(a, lo, hi) == IsFinite(a) /\ ~XLt(a, lo) /\ ~XGt(a, hi)

\* the original statement of C16: x and y never leave [0, RES-1]
C16_CoordinatesWithinGrid ==
    (lkIdx # << >> /\ InUnitCube(lkRgb)) =>
        /\ Between(lkIdx.x, FZero, FInt(lkRes - 1))
        /\ Between(lkIdx.y, FZero, FInt(lkRes - 1))

\* the float that follows RES-1
GridEndSuccessor(r) == Round(FInt(r - 1)[1] + 1, FInt(r - 1)[2])

\* C16: for a colour in [0,1]^3 whose channels are not all equal, ties for
\* the largest included, rgb[max_idx] is >= both other channels and > 0, so
\* x and y are finite quotients; they are >= 0 and at most one unit in the
\* last place above RES-1 (rgb * (RES-1) / z is rounded twice), and xi, yi
\* are in 0..RES-2.
C16_MaxChannel ==
    (lkIdx # << >> /\ InUnitCube(lkRgb)) =>
        /\ lkIdx.z = lkRgb[lkIdx.max_idx]
        /\ \A c \in 0..2 : ~XLt(lkIdx.z, lkRgb[c])
        /\ XGt(lkIdx.z, FZero)
        /\ Between(lkIdx.x, FZero, GridEndSuccessor(lkRes))
        /\ Between(lkIdx.y, FZero, GridEndSuccessor(lkRes))
        /\ lkIdx.xi \in 0..(lkRes - 2) /\ lkIdx.yi \in 0..(lkRes - 2)

\* two channels tie for the largest, the third is smaller
C16_Witness ==
    /\ lkPc = "returned"
    /\ lkRet.path = "table"
    /\ InUnitCube(lkRgb)
    /\ \E c \in 0..2 : c # lkIdx.max_idx /\ lkRgb[c] = lkIdx.z

(***************************************************************************)
(* Properties of the scale axis.                                           *)
(***************************************************************************)
\* the original statement of C17: the returned axis increases strictly
C17_StrictlyIncreasing ==
    scPc = "done" =>
        \A n \in 1..(Len(scaleOut) - 1) : FLt(scaleOut[n], scaleOut[n + 1])

\* the float v is within one unit in the last place of the fraction q
WithinOneUlp(v, q) ==
    IF v = FZero THEN q[1] = 0
    ELSE v[2] < 0 /\ Abs(v[1] * q[2] - q[1] * 2^(0 - v[2])) <= q[2]

\* C17: for res >= 2 the returned scale axis has length res, starts at 0,
\* ends at 1, scale[k] is smoothstep(smoothstep(k/(res-1))) rounded to f32
\* (compared here with the exact fraction for res <= 5) and scale[k] <=
\* scale[k+1] for every k; the inequality is strict at the resolutions the
\* lookup is used with, but the cast to f32 can merge the last entries into
\* 1 at larger ones.
C17_ScaleAxis ==
    scPc = "done" =>
        /\ Len(scaleOut) = scRes
        /\ scaleOut[1] = FZero
        /\ scaleOut[scRes] = FInt(1)
        /\ \A n \in 1..(scRes - 1) : ~FGt(scaleOut[n], scaleOut[n + 1])
        /\ scRes <= MaxLookupRes =>
              \A n \in 1..(scRes - 1) : FLt(scaleOut[n], scaleOut[n + 1])
        /\ scRes <= 5 =>
              \A n \in 1..scRes : WithinOneUlp(scaleOut[n], ScaleAt(n - 1, scRes))

\* an axis has been returned whose last two entries are both 1
C17_Witness ==
    /\ scPc = "done"
    /\ scaleOut[scRes - 1] = FInt(1)
    /\ scaleOut[scRes] = FInt(1)


(***************************************************************************)
(* Properties of the stored coefficients (SpecStore).                      *)
(***************************************************************************)
\* the integer a float of integral value stands for
IntOf(v) == IF v[2] >= 0 THEN v[1] * 2^v[2] ELSE v[1] \div 2^(0 - v[2])

\* (L - 360)/470 substituted into a t^2 + b t + c, over the denominator 470^2
FitDenominator == (830 - 360) * (830 - 360)
FittedNumerator(a, b, c, L) ==
    a * (L - 360) * (L - 360) + (830 - 360) * b * (L - 360) + FitDenominator * c

\* the stored triple (a s^2, b s - 2 a o s^2, c - b o s + a o^2 s^2) with
\* o = 360 and s = 1/470, over the same denominator
StoredNumerators(a, b, c) ==
    <<a,
      (830 - 360) * b - 2 * 360 * a,
      FitDenominator * c - 360 * (830 - 360) * b + 360 * 360 * a>>
StoredMagnitudes(a, b, c) ==
    <<Abs(a),
      (830 - 360) * Abs(b) + 2 * 360 * Abs(a),
      FitDenominator * Abs(c) + 360 * (830 - 360) * Abs(b) + 360 * 360 * Abs(a)>>

\* the float v is exactly the rational n / FitDenominator
ExactlyRatio(v, n) ==
    IF v[1] = 0 THEN n = 0
    ELSE IF v[2] >= 0
      THEN /\ v[2] <= 4
           /\ n = v[1] * 2^v[2] * FitDenominator
      ELSE /\ 0 - v[2] <= PrecBits + 4
           /\ n % (FitDenominator \div 4) = 0
           /\ (n \div (FitDenominator \div 4)) * 2^(0 - v[2]) = 4 * v[1]

\* n / FitDenominator in f64
RatioF64(n) == DivTo(WideBits, WInt(n), WInt(FitDenominator))

\* |v - ref| <= ulps * 2^-PrecBits * mag, evaluated in f64
CloseTo(v, ref, mag, ulps) ==
    LET diff == FAbs(SubTo(WideBits, Widen(v), ref))
        tol == MulTo(WideBits, RoundTo(WideBits, ulps, 0 - PrecBits), mag)
    IN  SubTo(WideBits, tol, diff)[1] >= 0

\* C18 as stated: for every wavelength the stored polynomial, evaluated by
\* get_value at L, equals the fitted quadratic a t^2 + b t + c at
\* t = (L - 360)/470.
C18_SameValueAtEveryWavelength ==
    stPc = "done" =>
        ExactlyRatio(stPoly, FittedNumerator(IntOf(stCoes[0]), IntOf(stCoes[1]),
                                             IntOf(stCoes[2]), IntOf(stLambda)))

\* C18 amended: the stored triple is the f32 rounding of
\* (a s^2, b s - 2 a o s^2, c - b o s + a o^2 s^2); as real polynomials in L
\* that triple and the fitted quadratic in t = (L - 360)/470 are identical,
\* and the value get_value computes from the stored f32 triple agrees with
\* the fitted quadratic up to the accumulated f32 rounding (a few units of
\* 2^-PrecBits of the magnitude of the terms), not exactly.
C18_StoredQuadratic ==
    stPc = "done" =>
        LET a == IntOf(stCoes[0])
            b == IntOf(stCoes[1])
            c == IntOf(stCoes[2])
            L == IntOf(stLambda)
            n == StoredNumerators(a, b, c)
            g == StoredMagnitudes(a, b, c)
        IN  /\ n[1] * L * L + n[2] * L + n[3] = FittedNumerator(a, b, c, L)
            /\ \A k \in 1..3 :
                   CloseTo(stOut[k - 1], RatioF64(n[k]), RatioF64(g[k]), 2)
            /\ CloseTo(stPoly, RatioF64(FittedNumerator(a, b, c, L)),
                       RatioF64(g[1] * L * L + g[2] * L + g[3]), 4)
            /\ CloseTo(stPoly, FittedAt(stCoes, Widen(stLambda)),
                       RatioF64(g[1] * L * L + g[2] * L + g[3]), 4)

\* a cell with all three coefficients non-zero, evaluated inside the range,
\* where the f32 value differs from the exact quadratic
C18_Witness ==
    /\ stPc = "done"
    /\ \A k \in 0..2 : stCoes[k][1] # 0
    /\ IntOf(stLambda) > 360
    /\ ~ExactlyRatio(stPoly, FittedNumerator(IntOf(stCoes[0]), IntOf(stCoes[1]),
                                             IntOf(stCoes[2]), IntOf(stLambda)))


(***************************************************************************)
(* Properties of the quadrature weights (SpecTables).                      *)
(***************************************************************************)
\* w[lo] + ... + w[hi]
RECURSIVE SumEighths(_, _, _)
SumEighths(w, lo, hi) ==
    IF lo > hi THEN 0
    ELSE IF lo = hi THEN w[lo]
    ELSE LET mid == (lo + hi) \div 2
         IN  SumEighths(w, lo, mid) + SumEighths(w, mid + 1, hi)

\* C19: the weights over the 283 fine samples are 0.375h at i = 0 and
\* i = 282, 0.75h at every interior i with i mod 3 = 0 and 1.125h at every
\* other interior i, i.e. 3h/8 times 1,3,3,2,3,3,2,...,3,3,1, and they sum
\* to 282h = 830 - 360.
C19_SimpsonWeights ==
    /\ \A n \in 1..Len(itWeights) :
           LET i == n - 1
           IN  itWeights[n] = IF i = 0 \/ i = 282 THEN 3
                              ELSE IF i % 3 = 0 THEN 6
                              ELSE 9
    /\ itPc = "done" =>
           /\ Len(itWeights) = 283
           /\ \A n \in 1..283 :
                  itWeights[n] = 3 * (IF n = 1 \/ n = 283 THEN 1
                                      ELSE IF n % 3 = 1 THEN 2 ELSE 3)
           \* sum of the weights = (sum of eighths / 8) * h, h = 470 / 282
           /\ SumEighths(itWeights, 1, 283) = 8 * 282
           /\ 282 * (CIE_LAMBDA_MAX - CIE_LAMBDA_MIN)
                  = (830 - 360) * (CIE_FINE_SAMPLES - 1)

\* the loop has run over all fine samples
C19_Witness ==
    /\ itPc = "done"
    /\ Len(itWeights) = CIE_FINE_SAMPLES
    /\ itWeights[1] = 3 /\ itWeights[4] = 6 /\ itWeights[5] = 9


(***************************************************************************)
(* Properties of max_value (SpecMaxValue).                                 *)
(***************************************************************************)
\* 2^16 * (c2 L^2 + c1 L + c0) at an integral wavelength L, exactly
Scaled16(v) == IF v[1] = 0 THEN 0 ELSE IntOf(<<v[1], v[2] + 16>>)
PolyScaled16(poly, L) ==
    Scaled16(poly.c2) * L * L + Scaled16(poly.c1) * L + Scaled16(poly.c0)

\* wavelengths of the valid range
RangeSamples ==
    {IntOf(FInt(LAMBDA_MIN)), 400, 500, 600, 700, 800, IntOf(FInt(LAMBDA_MAX))}

\* C20 as stated: max_value returns, for every polynomial, a wavelength
\* inside [LAMBDA_MIN, LAMBDA_MAX] at which the polynomial's value over that
\* range is largest, also when c2 >= 0 and when c2 = c1 = 0.
C20_PeakWithinRange ==
    mvPc = "done" =>
        /\ IsFinite(mvRet)
        /\ ~XLt(mvRet, FInt(LAMBDA_MIN))
        /\ ~XGt(mvRet, FInt(LAMBDA_MAX))
        /\ \A L \in RangeSamples :
               PolyScaled16(mvPoly, L) <= PolyScaled16(mvPoly, IntOf(mvRet))

\* the part of C20 that the code does satisfy: for a polynomial that opens
\* downwards (c2 < 0) the result is inside the range and no sampled
\* wavelength of the range has a larger value
C20_DownwardParabola ==
    (mvPc = "done" /\ mvPoly.c2[1] < 0) =>
        /\ IsFinite(mvRet)
        /\ ~XLt(mvRet, FInt(LAMBDA_MIN))
        /\ ~XGt(mvRet, FInt(LAMBDA_MAX))
        /\ \A L \in RangeSamples :
               PolyScaled16(mvPoly, L) <= PolyScaled16(mvPoly, IntOf(mvRet))


(***************************************************************************)
(* Properties of concurrent fits (SpecPure).                               *)
(***************************************************************************)
\* gauss_newton run on its own: the returned Option and the final coefficients
RECURSIVE GaussNewtonRun(_, _, _, _)
GaussNewtonRun(tables, rgb, coefficients, n) ==
    IF n = 0 THEN [ret |-> "Some", coes |-> coefficients]
    ELSE LET s == GaussNewtonBody(tables, rgb, coefficients)
         IN  IF ~s.ok THEN [ret |-> "None", coes |-> s.coes]
             ELSE IF s.brk THEN [ret |-> "Some", coes |-> s.coes]
             ELSE GaussNewtonRun(tables, rgb, s.coes, n - 1)

SameArguments(c, d) ==
    /\ puCalls[c].rgb = puCalls[d].rgb
    /\ puCalls[c].coes0 = puCalls[d].coes0
    /\ puCalls[c].max_iter = puCalls[d].max_iter

InUnitInterval(v) == IsFinite(v) /\ ~FLt(v, FZero) /\ ~FGt(v, FInt(1))

\* C22 as stated: for every coefficient triple and every wavelength in
\* [360, 830] the value get_value returns lies in [0, 1].
C22_AlwaysInUnitInterval ==
    stPc = "done" => InUnitInterval(stValue)

\* C22 amended: whenever the polynomial get_value computes is not NaN, which
\* covers every triple of finite coefficients and the triples (0, 0, +-inf)
\* returned for r = g = b equal to 0 or 1, the value lies in [0, 1], and it is
\* exactly 1 for +inf and exactly 0 for -inf; a triple whose polynomial is
\* NaN (a NaN coefficient, or infinite terms of opposite sign) gives NaN.
C22_UnitIntervalUnlessNaN ==
    stPc = "done" =>
        /\ (\A n \in 0..2 : IsFinite(stOut[n])) => IsFinite(stPoly)
        /\ (stOut[0] = FZero /\ stOut[1] = FZero /\ ~IsNaN(stOut[2])) =>
               stPoly = stOut[2]
        /\ ~IsNaN(stPoly) => InUnitInterval(stValue)
        /\ stPoly = PosInf => stValue = FInt(1)
        /\ stPoly = NegInf => stValue = FZero
        /\ IsNaN(stPoly) => IsNaN(stValue)

\* get_value has returned for the polynomial of an achromatic colour with
\* infinite c0
C22_Witness ==
    /\ stPc = "done"
    /\ stCoes = << >>
    /\ stOut = Vec3(FZero, FZero, AchromaticC0(FInt(1)))
    /\ stPoly = PosInf
    /\ stValue = FInt(1)


(***************************************************************************)
(* Properties of cie_interp (SpecCie).                                     *)
(***************************************************************************)
\* clamp(floor((wavelength - 360) / 5), 0, 93) for a finite wavelength, exactly
ClampedInterval(w) ==
    LET q == IF w[2] >= 0
               THEN (IF w[2] + WideBits > 30 THEN Sign(w[1]) * 1000
                     ELSE (w[1] * 2^w[2] - 360) \div 5)
               ELSE (IF 0 - w[2] > 20 THEN (0 - 360) \div 5
                     ELSE (w[1] - 360 * 2^(0 - w[2])) \div (5 * 2^(0 - w[2])))
    IN  IF q < 0 THEN 0 ELSE IF q > 93 THEN 93 ELSE q

\* C23: for every wavelength, also below 360 and above 830, cie_interp uses
\* the interval index i = clamp(floor((wavelength - 360) / 5), 0, 93); it
\* reads only data[i] and data[i+1] with 0 <= i and i + 1 <= 94 and never
\* indexes outside the 95-sample array.
C23_IndexWithinArray ==
    /\ ciPc # "panicked"
    /\ ciPc = "returned" =>
           /\ ciOffset \in 0..93
           /\ ciReads = {ciOffset, ciOffset + 1}
           /\ ciReads \subseteq DOMAIN ciData
           /\ IsFinite(ciLambda) => ciOffset = ClampedInterval(ciLambda)
           /\ ciLambda = PosInf => ciOffset = 93
           /\ ciLambda = NegInf => ciOffset = 0

\* a call above the range has returned after reading the last interval
C23_Witness ==
    /\ ciPc = "returned"
    /\ ciLambda = WInt(5000)
    /\ ciReads = {93, 94}

\* C24 as stated: cie_interp never extrapolates: for every wavelength, also
\* outside [360, 830], the weight applied to data[i+1] lies in [0, 1], so the
\* result lies between data[i] and data[i+1].
C24_NeverExtrapolates ==
    (ciPc = "returned" /\ IsFinite(ciLambda)) =>
        LET lo == ciData[ciOffset]
            hi == ciData[ciOffset + 1]
        IN  /\ IsFinite(ciWeight)
            /\ ciWeight[1] >= 0 /\ WSub(WInt(1), ciWeight)[1] >= 0
            /\ IsFinite(ciRet)
            /\ ~(WSub(ciRet, lo)[1] < 0 /\ WSub(ciRet, hi)[1] < 0)
            /\ ~(WSub(ciRet, lo)[1] > 0 /\ WSub(ciRet, hi)[1] > 0)

\* the largest absolute value among the candidate pivots a[k][i], k >= i
ColumnMax(a, i) ==
    CHOOSE m \in {QAbs(a[k][i]) : k \in i..(LupN - 1)} :
        \A k \in i..(LupN - 1) : ~QLt(m, QAbs(a[k][i]))

\* every candidate pivot of column i is a number
NumericColumn(a, i) == \A k \in i..(LupN - 1) : a[k][i] # QUndef

\* C25: lup_decompose fails exactly when, at some column i, the largest
\* absolute value among the candidate pivots a[k][i], k >= i, of the matrix
\* left by the eliminations of columns 0..i-1 is strictly below tol; a largest
\* magnitude equal to tol is accepted; and on failure the matrix is left as
\* the earlier eliminations overwrote it.
C25_FailsExactlyBelowTol ==
    /\ [](luPc = "failed" =>
            /\ NumericColumn(luA, luI)
            /\ QLt(ColumnMax(luA, luI), luTol)
            /\ \A n \in 1..(Len(luMax) - 1) : ~QLt(luMax[n], luTol))
    /\ [](luPc \in {"column", "solved"} =>
            \A n \in 1..Len(luMax) : ~QLt(luMax[n], luTol))
    /\ [][(luPc = "column" /\ luI < LupN /\ NumericColumn(luA, luI)) =>
            /\ luMax' = Append(luMax, ColumnMax(luA, luI))
            /\ (luPc' = "failed") <=> QLt(ColumnMax(luA, luI), luTol)
            /\ ColumnMax(luA, luI) = luTol => (luPc' = "column" /\ luI' = luI + 1)
            /\ luPc' = "failed" => luA' = luA]_vars

\* a failure in the last column, after a first column whose largest pivot
\* magnitude equalled tol was accepted and the matrix was overwritten
C25_Witness ==
    /\ luPc = "failed"
    /\ Len(luMax) = LupN
    /\ luMax[1] = luTol
    /\ luA # luA0

ExactSum(f) == ExactDot([i \in {0} |-> [k \in 0..(LupN - 1) |-> Q(1, 1)]], f, 0, 0, LupN)
LowerAt(a, i, k) == IF k < i THEN a[i][k] ELSE IF k = i THEN Q(1, 1) ELSE Q(0, 1)
UpperAt(a, k, j) == IF k <= j THEN a[k][j] ELSE Q(0, 1)
PermutesRows(p) == {p[n] : n \in 0..(LupN - 1)} = 0..(LupN - 1)
FactorsMatch(a, p, a0) ==
    \A i, j \in 0..(LupN - 1) :
        ExactSum([k \in 0..(LupN - 1) |-> QMul(LowerAt(a, i, k), UpperAt(a, k, j))])
            = a0[p[i]][j]
Solves(a0, x, b) ==
    \A i \in 0..(LupN - 1) :
        ExactSum([j \in 0..(LupN - 1) |-> QMul(a0[i][j], x[j])]) = b[i]
FactorsAndSolution ==
    /\ PermutesRows(luP)
    /\ FactorsMatch(luA, luP, luA0)
    /\ Solves(luA0, luX, luB)

MacroColumnOut(l, j, i) ==
    MacroColumn([ok |-> TRUE, out |-> [p \in 0..(OutLen(res) - 1) |-> Placeholder],
                 coes |-> ZeroCoes], l, j, i, res).out

\* C27 as stated: the sequential generator of the macro crate and the
\* threaded generator of the library invoke the fitter, for every cell
\* (l, k, j, i), with the same target RGB and the same initial coefficients
\* and store the result at the same flat index, so whatever a closure of the
\* library has stored is what the macro crate stores there.
C27_SameTableAsMacro ==
    \A id \in DOMAIN workers : \A i \in 0..(res - 1) : \A k \in 0..(res - 1) :
        \A c \in 0..2 :
            LET p == 3 * Idx(id[1], k, id[2], i, res) + c
            IN  out[p] # Placeholder => out[p] = MacroColumnOut(id[1], id[2], i)[p]

\* what the loop body of call c is about to compute from its coefficients
BodyResidual(c) == EvalResidual(puTables, puCalls[c].coes, puCalls[c].rgb)
BodyFactors(c) ==
    lup_decompose(EvalJacobian(puTables, puCalls[c].coes, puCalls[c].rgb), Tol)

\* C28: in every gauss_newton iteration the Newton update and the rescale are
\* applied before the convergence test, and the test uses the residual
\* measured at the coefficients before that update; so a call with
\* max_iter >= 1 whose Jacobian is not singular applies at least one update,
\* also when the initial coefficients already meet the threshold, and returns
\* coefficients one step past the iterate whose residual was tested.  When
\* iteration n fails the coefficients are those left by iterations 1..n-1.
C28_UpdateBeforeTest ==
    /\ [][\A c \in Callers :
            puCalls'[c].iter = puCalls[c].iter + 1 =>
                LET d == BodyFactors(c)
                    residual == BodyResidual(c)
                IN  IF d.ok
                      THEN /\ puCalls'[c].coes =
                                Rescale(NewtonUpdate(puCalls[c].coes,
                                                     lup_solve(d.a, d.p, residual)))
                           /\ (puCalls'[c].pc = "returned")
                                <=> FLt(ResidualNorm(residual), Threshold)
                           /\ puCalls'[c].ret # "None"
                      ELSE /\ puCalls'[c].coes = puCalls[c].coes
                           /\ puCalls'[c].pc = "returned"
                           /\ puCalls'[c].ret = "None"]_vars
    /\ [](\A c \in Callers :
            (puCalls[c].pc = "returned" /\ puCalls[c].max_iter >= 1) =>
                puCalls[c].iter >= 1)
    /\ [](\A c \in Callers :
            puCalls[c].ret = "None" =>
                puCalls[c].coes = GaussNewtonRun(puTables, puCalls[c].rgb, puCalls[c].coes0,
                                                 puCalls[c].iter - 1).coes)

\* one call has left the loop in its first iteration, its initial
\* coefficients meeting the threshold, with the update applied; the other has
\* failed in a later iteration and keeps the earlier updates
C28_Witness ==
    /\ puCalls # << >>
    /\ puCalls[1].ret = "Some"
    /\ puCalls[1].iter = 1
    /\ puCalls[1].max_iter > 1
    /\ puCalls[1].coes # puCalls[1].coes0
    /\ puCalls[2].ret = "None"
    /\ puCalls[2].iter >= 2
    /\ puCalls[2].coes # puCalls[2].coes0

\* C29 as stated: after any sequence of safe public RgbColor operations (new,
\* clamp, +, -, * scalar, / scalar, their assigning forms and writes through
\* index_mut) every component of the resulting RgbColor lies in [0, 1].
C29_ComponentsInUnitInterval ==
    rcPc = "live" => \A j \in 0..2 : InUnitInterval(rcColor[j])

\* C30: when the caller reaches the final Arc::try_unwrap calls every closure
\* has been joined and has dropped its clones, so both strong counts are
\* exactly 1 and the mutex is unlocked and not poisoned; neither try_unwrap
\* nor into_inner fails, and the caller returns.
C30_UnwrapCannotFail ==
    /\ [](mainPc = "unwrap" =>
            /\ \A id \in DOMAIN workers : workers[id].st = "finished"
            /\ StrongCount = 1
            /\ holder = NoWorker
            /\ ~poisoned)
    /\ [][mainPc = "unwrap" => mainPc' = "returned"]_vars

\* the caller stands at the try_unwrap calls after joining every closure of
\* the last channel, each of which has stored cells
C30_Witness ==
    /\ mainPc = "unwrap"
    /\ res >= 2
    /\ mainL = Channels - 1
    /\ \A id \in DOMAIN workers : Len(fitlog[id]) = res * res

====
